---------------------------- MODULE Spec2Model ----------------------------
(***************************************************************************)
(* A model of the part/override state machines and of the CSG/infill       *)
(* geometry pipelines of the parametric 3D builder (WavyStructure,         *)
(* Paralette, TriangleInfill).                                             *)
(*                                                                         *)
(* Numbers: every length, scale and count parameter is held as an integer  *)
(* number of thousandths (6 is 6000, 0.8 is 800), so that Math.round and   *)
(* the comparisons of the source are computed, not assumed.                *)
(***************************************************************************)
EXTENDS Integers, Sequences, FiniteSets, TLC

VARIABLES
    wParams,      \* WavyStructure: the params prop (key -> thousandths)
    parts,        \* WavyStructure: useState<PartData[]>  (a sequence)
    selectedIds,  \* WavyStructure: useState<Set<string>>
    deleted,      \* history: ids removed by WavyStructure.deleteSelected so far
    ops,          \* number of user events handled so far (bounded)
    pParams,      \* Paralette: the params prop (key -> thousandths)
    pParts,       \* Paralette: usePartInteraction's parts
    pSelected,    \* Paralette: usePartInteraction's selectedIds
    pFrameGeo,    \* Paralette: the memoized frameGeo
    pGripTubeGeo, \* Paralette: the memoized gripTubeGeo
    pFootGeo,     \* Paralette: the memoized footGeo
    pFrameFail,   \* the step of the last frame construction that threw (0: none)
    pCrashed,     \* an exception left the Paralette render function
    iBuild,       \* TriangleInfill: how the build treats const ("none": not mounted)
    iParams,      \* TriangleInfill: the params prop (key -> thousandths)
    iParts,       \* TriangleInfill: useState<PartData[]>
    iSelected,    \* TriangleInfill: useState<Set<string>>
    iDeleted,     \* history: ids removed by TriangleInfill.deleteSelected so far
    iFrameGeo,    \* TriangleInfill: the memoized frameGeo
    iInfill,      \* TriangleInfill: the last run of generateInfill (the infillGeo memo)
    iFail,        \* the step of the last generateInfill run that threw (0: none)
    iCrashed,     \* an exception left the TriangleInfill render function
    hArgs,        \* createHoneycombSlab: the arguments of the call
    hSlab,        \* createHoneycombSlab: the returned slab ("none" before the call)
    activeId,     \* App: the id of the active project, whose component is mounted
    hoveredId,    \* the mounted component's useState hoveredId
    ptArgs,       \* pointInTriangle: the arguments of the call
    ptResult,     \* pointInTriangle: <<the returned boolean>> (<<>> before the call)
    unit,         \* App: useState<UnitSystem>
    paramsMap,    \* App: useState paramsMap (project id -> params; <<>>: not tracked)
    exported,     \* history: the last export made since the params were last edited
    handle,       \* App: handleRef.current, with the state its closures captured
    partOverrides,  \* App: useState partOverrides (part id -> overrides)
    loaded,       \* the projects whose React.lazy component has finished loading
    appSelectedIds, \* App: useState selectedIds
    exporting,    \* ParameterPanel: useState exporting
    glbPending    \* the onExportGLB promises that have not settled yet

wavyVars == <<wParams, parts, selectedIds, deleted>>
paraletteVars ==
    <<pParams, pParts, pSelected, pFrameGeo, pGripTubeGeo, pFootGeo, pFrameFail, pCrashed>>
infillVars ==
    <<iBuild, iParams, iParts, iSelected, iDeleted, iFrameGeo, iInfill, iFail, iCrashed>>
honeycombVars == <<hArgs, hSlab>>
sceneVars == <<activeId, hoveredId>>
pointVars == <<ptArgs, ptResult>>
unitVars == <<unit, paramsMap, exported>>
appVars == <<handle, partOverrides, loaded, appSelectedIds, exporting, glbPending>>
vars ==
    <<wavyVars, ops, paraletteVars, infillVars, honeycombVars, sceneVars, pointVars, unitVars,
      appVars>>
notWavyVars == <<paraletteVars, infillVars, honeycombVars, activeId, pointVars, unitVars,
    appVars>>
notParaletteVars == <<wavyVars, infillVars, honeycombVars, activeId, pointVars, unitVars,
    appVars>>
notInfillVars == <<wavyVars, paraletteVars, honeycombVars, activeId, pointVars, unitVars,
    appVars>>
notHoneycombVars == <<wavyVars, paraletteVars, infillVars, sceneVars, pointVars, unitVars,
    appVars>>
notPointVars == <<wavyVars, paraletteVars, infillVars, honeycombVars, sceneVars, unitVars,
    appVars>>
notUnitVars == <<wavyVars, paraletteVars, infillVars, honeycombVars, hoveredId, pointVars,
    appVars>>

(***************************************************************************)
(* Bounds of the model                                                     *)
(***************************************************************************)
MaxFinCount == 3
MaxOps == 3
MaxSceneOps == 2
MaxCoord == 2

(***************************************************************************)
(* WavyStructure                                                           *)
(***************************************************************************)

\* Math.round: the nearest integer, halves rounded up (floor(x + 0.5)).
MathRound(v) == (v + 500) \div 1000

\* paramDefs of wavy-structure: finCount min
FinMin == 2

OverrideFields == {"scaleX", "scaleY", "scaleZ", "bevelRadius", "bevelSegments"}

DEFAULT_OVERRIDES ==
    [scaleX |-> 1000, scaleY |-> 1000, scaleZ |-> 1000, bevelRadius |-> 0, bevelSegments |-> 1]

WavyShapeKeys ==
    {"baseWidth", "baseDepth", "baseHeight", "finThickness", "waveAvg", "waveA", "waveB"}

WavyDefaultParams ==
    [baseWidth |-> 35000, baseDepth |-> 28000, baseHeight |-> 2000, finCount |-> 6000,
     finThickness |-> 900, waveAvg |-> 12500, waveA |-> 3500, waveB |-> 4000]

\* One other value of each shape parameter, inside its slider range.
WavyOtherParams ==
    [baseWidth |-> 36000, baseDepth |-> 29000, baseHeight |-> 2100, finCount |-> 6000,
     finThickness |-> 1000, waveAvg |-> 13000, waveA |-> 3600, waveB |-> 4100]

\* finCount values the panel can hand over: FinMin .. MaxFinCount, in halves.
FinCountValues == { h * 500 : h \in (2 * FinMin)..(2 * MaxFinCount) }

\* The part ids: 'base', `xfin-${i}`, `zfin-${i}`.
BaseId == <<"base", 0>>
XFinId(i) == <<"xfin", i>>
ZFinId(i) == <<"zfin", i>>

RECURSIVE FinParts(_, _, _)
\* for (let i = from; i < n; i++) newParts.push({ id, type, index: i, overrides })
FinParts(type, from, n) ==
    IF from >= n THEN <<>>
    ELSE << [id |-> IF type = "x" THEN XFinId(from) ELSE ZFinId(from),
             type |-> type, index |-> from, overrides |-> DEFAULT_OVERRIDES] >>
         \o FinParts(type, from + 1, n)

\* A loop bound off by one (i <= finCount).
NewPartsOffByOne(finCount) ==
    << [id |-> BaseId, type |-> "base", index |-> 0, overrides |-> DEFAULT_OVERRIDES] >>
    \o FinParts("x", 0, finCount + 1) \o FinParts("z", 0, finCount + 1)

\* The list the [finCount] effect builds.
NewParts(finCount) ==
    << [id |-> BaseId, type |-> "base", index |-> 0, overrides |-> DEFAULT_OVERRIDES] >>
    \o FinParts("x", 0, finCount) \o FinParts("z", 0, finCount)

PartIds(ps) == { ps[i].id : i \in 1..Len(ps) }

AllIds == PartIds(NewParts(MaxFinCount))

RECURSIVE FilterUpToFirstSelected(_, _)
\* A filter that ends at the first selected part: the parts behind it are lost.
FilterUpToFirstSelected(ps, sel) ==
    IF ps = <<>> \/ Head(ps).id \in sel THEN <<>>
    ELSE <<Head(ps)>> \o FilterUpToFirstSelected(Tail(ps), sel)

RECURSIVE Filter(_, _)
\* prev.filter((f) => !sel.has(f.id))
Filter(ps, sel) ==
    IF ps = <<>> THEN <<>>
    ELSE (IF Head(ps).id \in sel THEN <<>> ELSE <<Head(ps)>>) \o Filter(Tail(ps), sel)

\* { ...overrides, ...partial }
Patch(ov, partial) ==
    [f \in OverrideFields |-> IF f \in DOMAIN partial THEN partial[f] ELSE ov[f]]

BevelFields == {"bevelRadius", "bevelSegments"}

\* The update without the propagation to the fins of the same type.
WavyUpdatedNoPropagation(prev, ids, partial) ==
    [i \in 1..Len(prev) |->
        IF prev[i].id \in ids
          THEN [prev[i] EXCEPT !.overrides = Patch(@, partial)]
          ELSE prev[i]]

\* The update with the whole partial handed on to the fins of the same type.
WavyUpdatedPropagatingAll(prev, ids, partial) ==
    LET updatedTypes == { prev[i].type : i \in { j \in 1..Len(prev) : prev[j].id \in ids } }
    IN [i \in 1..Len(prev) |->
          IF prev[i].id \in ids \/ prev[i].type \in updatedTypes
            THEN [prev[i] EXCEPT !.overrides = Patch(@, partial)]
            ELSE prev[i]]

\* The part-list update of WavyStructure.updatePartOverrides.
WavyUpdated(prev, ids, partial) ==
    LET hasBevelChange == (DOMAIN partial) \cap BevelFields # {}
        updatedTypes == IF hasBevelChange
                          THEN { prev[i].type : i \in { j \in 1..Len(prev) : prev[j].id \in ids } }
                          ELSE {}
        bevelPatch == [f \in (DOMAIN partial) \cap BevelFields |-> partial[f]]
    IN [i \in 1..Len(prev) |->
          IF prev[i].id \in ids
            THEN [prev[i] EXCEPT !.overrides = Patch(@, partial)]
          ELSE IF prev[i].type \in updatedTypes
            THEN [prev[i] EXCEPT !.overrides = Patch(@, bevelPatch)]
          ELSE prev[i]]

\* The partial override objects the selection panel sends.
Partials ==
    { [scaleX |-> 2000], [scaleY |-> 500],
      [bevelRadius |-> 500], [bevelSegments |-> 3] }

\* The id sets handed to updatePartOverrides: the selection, or one part.
IdSets == ({selectedIds} \cup { {i} : i \in AllIds }) \ {{}}

\* The component is not mounted (another project is the active one).
WavyUnmounted ==
    /\ wParams = WavyDefaultParams
    /\ parts = <<>>
    /\ selectedIds = {}
    /\ deleted = {}

WavyMounted ==
    /\ \E fc \in FinCountValues : wParams = [WavyDefaultParams EXCEPT !.finCount = fc]
    /\ parts = NewParts(MathRound(wParams.finCount))
    /\ selectedIds = {}
    /\ deleted = {}

\* The effect with the whole params object as its dependency.
WavyRenderOnAnyParam(newParams) ==
    /\ wParams' = newParams
    /\ IF newParams # wParams
         THEN /\ parts' = NewParts(MathRound(newParams.finCount))
              /\ selectedIds' = {}
         ELSE UNCHANGED <<parts, selectedIds>>

\* The effect with the unrounded params.finCount as its dependency.
WavyRenderOnRawFinCount(newParams) ==
    /\ wParams' = newParams
    /\ IF newParams.finCount # wParams.finCount
         THEN /\ parts' = NewParts(MathRound(newParams.finCount))
              /\ selectedIds' = {}
         ELSE UNCHANGED <<parts, selectedIds>>

\* The [finCount] effect without its setSelectedIds(new Set()).
WavyRenderKeepingSelection(newParams) ==
    /\ wParams' = newParams
    /\ IF MathRound(newParams.finCount) # MathRound(wParams.finCount)
         THEN /\ parts' = NewParts(MathRound(newParams.finCount))
              /\ UNCHANGED selectedIds
         ELSE UNCHANGED <<parts, selectedIds>>

\* A new params prop arrives: the [finCount] effect re-initialises the parts
\* and the selection exactly when the rounded finCount changed.
WavyRender(newParams) ==
    /\ wParams' = newParams
    /\ IF MathRound(newParams.finCount) # MathRound(wParams.finCount)
         THEN /\ parts' = NewParts(MathRound(newParams.finCount))
              /\ selectedIds' = {}
         ELSE UNCHANGED <<parts, selectedIds>>

\* Derive bevel from fin overrides (shared per fin type): the first fin's.
FinsOfType(t) == SelectSeq(parts, LAMBDA f : f.type = t)
XBevelRadius == IF Len(FinsOfType("x")) > 0 THEN FinsOfType("x")[1].overrides.bevelRadius ELSE 0
XBevelSegments == IF Len(FinsOfType("x")) > 0 THEN FinsOfType("x")[1].overrides.bevelSegments ELSE 1
ZBevelRadius == IF Len(FinsOfType("z")) > 0 THEN FinsOfType("z")[1].overrides.bevelRadius ELSE 0
ZBevelSegments == IF Len(FinsOfType("z")) > 0 THEN FinsOfType("z")[1].overrides.bevelSegments ELSE 1

\* The null of hoveredId.
NoHover == <<"null", 0>>

\* A dependency array of xFinGeo that also lists the first fin's scale override.
XFinGeoDepsWithScale ==
    <<wParams.baseWidth, wParams.finThickness, wParams.waveAvg, wParams.waveA,
      wParams.waveB, XBevelRadius, XBevelSegments,
      IF Len(FinsOfType("x")) > 0 THEN FinsOfType("x")[1].overrides.scaleX ELSE 0>>

\* The dependency arrays of the xFinGeo and zFinGeo memos.
XFinGeoDeps ==
    <<wParams.baseWidth, wParams.finThickness, wParams.waveAvg, wParams.waveA,
      wParams.waveB, XBevelRadius, XBevelSegments>>
ZFinGeoDeps ==
    <<wParams.baseDepth, wParams.finThickness, wParams.waveAvg, wParams.waveA,
      wParams.waveB, ZBevelRadius, ZBevelSegments>>

\* The memo callbacks that run in the render following a step: those whose
\* dependency array changed value.
WavyRebuilt ==
    { g \in {"xFinGeo"} : XFinGeoDeps' # XFinGeoDeps }
      \cup { g \in {"zFinGeo"} : ZFinGeoDeps' # ZFinGeoDeps }

WavySetShapeParam ==
    /\ activeId = "wavy-structure" /\ ops < MaxOps
    /\ UNCHANGED notWavyVars
    /\ \E k \in WavyShapeKeys :
         \E v \in {WavyDefaultParams[k], WavyOtherParams[k]} :
            /\ v # wParams[k]
            /\ WavyRender([wParams EXCEPT ![k] = v])
    /\ ops' = ops + 1
    /\ UNCHANGED deleted
    /\ UNCHANGED hoveredId

WavySetFinCount ==
    /\ activeId = "wavy-structure" /\ ops < MaxOps
    /\ UNCHANGED notWavyVars
    /\ \E v \in FinCountValues :
         /\ v # wParams.finCount
         /\ WavyRender([wParams EXCEPT !.finCount = v])
    /\ ops' = ops + 1
    /\ UNCHANGED deleted
    /\ UNCHANGED hoveredId

\* deleteSelected (the handle's, and the Delete/Backspace key handler's)
WavyDeleteSelected ==
    /\ activeId = "wavy-structure" /\ ops < MaxOps
    /\ UNCHANGED notWavyVars
    /\ IF Cardinality(selectedIds) > 0
         THEN /\ parts' = Filter(parts, selectedIds)
              /\ selectedIds' = {}
              /\ deleted' = deleted \cup (selectedIds \cap PartIds(parts))
         ELSE UNCHANGED <<parts, selectedIds, deleted>>
    /\ ops' = ops + 1
    /\ UNCHANGED wParams
    /\ UNCHANGED hoveredId

WavyUpdateAt(ids, partial) ==
    /\ activeId = "wavy-structure" /\ ops < MaxOps
    /\ UNCHANGED notWavyVars
    /\ parts' = WavyUpdated(parts, ids, partial)
    /\ ops' = ops + 1
    /\ UNCHANGED <<wParams, selectedIds, deleted>>
    /\ UNCHANGED hoveredId

\* updatePartOverrides(ids, partial)
WavyUpdatePartOverrides ==
    \E ids \in IdSets : \E partial \in Partials : WavyUpdateAt(ids, partial)

\* onSelect(id, e): a click on a rendered part, plain or with Ctrl/Meta.
WavyOnSelect ==
    /\ activeId = "wavy-structure" /\ ops < MaxOps
    /\ UNCHANGED notWavyVars
    /\ \E id \in PartIds(parts) : \E isMulti \in BOOLEAN :
         selectedIds' =
            IF isMulti
              THEN (IF id \in selectedIds THEN selectedIds \ {id} ELSE selectedIds \cup {id})
              ELSE (IF Cardinality(selectedIds) = 1 /\ id \in selectedIds THEN {} ELSE {id})
    /\ ops' = ops + 1
    /\ UNCHANGED <<wParams, parts, deleted>>
    /\ UNCHANGED hoveredId

\* onCanvasClick after onCanvasPointerDown: dx, dy in pixels.
WavyOnCanvasClick ==
    /\ activeId = "wavy-structure" /\ ops < MaxOps
    /\ UNCHANGED notWavyVars
    /\ \E dx \in {0, 3, 6} : \E dy \in {0, 4} :
         IF dx * dx + dy * dy > 25
           THEN UNCHANGED selectedIds
           ELSE selectedIds' = {}
    /\ ops' = ops + 1
    /\ UNCHANGED <<wParams, parts, deleted>>
    /\ UNCHANGED hoveredId

\* onHover(id, e): the pointer enters a rendered part.
WavyOnHover ==
    /\ activeId = "wavy-structure" /\ ops < MaxOps
    /\ \E id \in PartIds(parts) : hoveredId' = id
    /\ ops' = ops + 1
    /\ UNCHANGED <<wavyVars, notWavyVars>>

\* onUnhover: the pointer leaves the part it entered.
WavyOnUnhover ==
    /\ activeId = "wavy-structure" /\ ops < MaxOps
    /\ hoveredId # NoHover
    /\ hoveredId' = NoHover
    /\ ops' = ops + 1
    /\ UNCHANGED <<wavyVars, notWavyVars>>

WavyNext ==
    \/ WavySetShapeParam
    \/ WavySetFinCount
    \/ WavyDeleteSelected
    \/ WavyUpdatePartOverrides
    \/ WavyOnSelect
    \/ WavyOnCanvasClick

(***************************************************************************)
(* usePartInteraction and Paralette                                        *)
(***************************************************************************)

ParaletteKeys ==
    {"baseWidth", "triangleHeight", "barThickness", "depth",
     "gripDiameter", "gripExtension", "footRadius", "footHeight"}

ParaletteDefaultParams ==
    [baseWidth |-> 55000, triangleHeight |-> 50000, barThickness |-> 5500, depth |-> 8000,
     gripDiameter |-> 8000, gripExtension |-> 3500, footRadius |-> 1800, footHeight |-> 1200]

\* One other value of each parameter, inside its slider range (baseWidth at its
\* minimum and gripDiameter at its maximum: a grip wider than the frame).
ParaletteOtherParams ==
    [baseWidth |-> 10000, triangleHeight |-> 60000, barThickness |-> 6000, depth |-> 9000,
     gripDiameter |-> 20000, gripExtension |-> 4000, footRadius |-> 2000, footHeight |-> 1500]

INITIAL_PARTS ==
    << [id |-> <<"frame", 0>>, type |-> "frame", overrides |-> DEFAULT_OVERRIDES],
       [id |-> <<"grip", 0>>, type |-> "grip", overrides |-> DEFAULT_OVERRIDES],
       [id |-> <<"foot-left", 0>>, type |-> "foot-left", overrides |-> DEFAULT_OVERRIDES],
       [id |-> <<"foot-right", 0>>, type |-> "foot-right", overrides |-> DEFAULT_OVERRIDES] >>

\* Derived values
Hw(p) == p.baseWidth \div 2
GripInnerR(p) == p.gripDiameter \div 2
GripOuterR(p) == p.gripDiameter \div 2 + (p.barThickness * 4) \div 10
CornerR(p) == (p.barThickness * 48) \div 100

\* The dependency array of frameGeo: [W, H, T, depth, hw, legLength, legAngle,
\* cornerR, gripOuterR, gripInnerR]; legLength = sqrt(hw*hw + H*H) and
\* legAngle = atan2(H, hw) are held as the pairs they are computed from.
FrameDeps(p) ==
    << p.baseWidth, p.triangleHeight, p.barThickness, p.depth, Hw(p),
       <<"sqrt", Hw(p), p.triangleHeight>>, <<"atan2", p.triangleHeight, Hw(p)>>,
       CornerR(p), GripOuterR(p), GripInnerR(p) >>

GripTubeDeps(p) == <<GripOuterR(p), GripInnerR(p), p.depth, p.gripExtension>>
FootDeps(p) == <<p.footRadius, p.depth>>

\* The steps with the grip hole subtracted before the apex cap is added.
FrameStepsHoleBeforeCap(p) ==
    << [do |-> "brush", name |-> "baseBrush", geo |-> "RoundedBox"],
       [do |-> "brush", name |-> "leftLegBrush", geo |-> "RoundedBox"],
       [do |-> "evaluate", left |-> "baseBrush", right |-> "leftLegBrush", op |-> "ADDITION"],
       [do |-> "brush", name |-> "rightLegBrush", geo |-> "RoundedBox"],
       [do |-> "evaluate", left |-> "result", right |-> "rightLegBrush", op |-> "ADDITION"],
       [do |-> "brush", name |-> "holeBrush", geo |-> "Cylinder"],
       [do |-> "evaluate", left |-> "result", right |-> "holeBrush", op |-> "SUBTRACTION"],
       [do |-> "brush", name |-> "capBrush", geo |-> "Cylinder"],
       [do |-> "evaluate", left |-> "result", right |-> "capBrush", op |-> "ADDITION"],
       [do |-> "finish", groupsLength |-> 0, computeVertexNormals |-> TRUE] >>

\* The statements of the try block of frameGeo that can throw, in order.
FrameSteps(p) ==
    << [do |-> "brush", name |-> "baseBrush", geo |-> "RoundedBox"],
       [do |-> "brush", name |-> "leftLegBrush", geo |-> "RoundedBox"],
       [do |-> "evaluate", left |-> "baseBrush", right |-> "leftLegBrush", op |-> "ADDITION"],
       [do |-> "brush", name |-> "rightLegBrush", geo |-> "RoundedBox"],
       [do |-> "evaluate", left |-> "result", right |-> "rightLegBrush", op |-> "ADDITION"],
       [do |-> "brush", name |-> "capBrush", geo |-> "Cylinder"],
       [do |-> "evaluate", left |-> "result", right |-> "capBrush", op |-> "ADDITION"],
       [do |-> "brush", name |-> "holeBrush", geo |-> "Cylinder"],
       [do |-> "evaluate", left |-> "result", right |-> "holeBrush", op |-> "SUBTRACTION"],
       [do |-> "finish", groupsLength |-> 0, computeVertexNormals |-> TRUE] >>

\* The steps an exception can come from: 0 stands for none.
FrameFailPoints == 0..Len(FrameSteps(ParaletteDefaultParams))

RECURSIVE RunFrameSteps(_, _, _, _)
\* Runs the steps from i on; acc is the geometry built so far. The step failAt
\* throws: the run ends there.
RunFrameSteps(steps, i, acc, failAt) ==
    IF i > Len(steps) THEN [threw |-> FALSE, value |-> acc]
    ELSE IF i = failAt THEN [threw |-> TRUE, value |-> acc]
    ELSE LET s == steps[i]
             next == IF s.do = "evaluate"
                       THEN [acc EXCEPT !.operations = Append(@, <<s.left, s.op, s.right>>)]
                     ELSE IF s.do = "finish"
                       THEN [acc EXCEPT !.groups = s.groupsLength,
                                        !.normalsComputed = s.computeVertexNormals]
                     ELSE acc
         IN RunFrameSteps(steps, i + 1, next, failAt)

\* new THREE.BoxGeometry(x, y, z)
BoxGeometry(x, y, z) == [kind |-> "box", x |-> x, y |-> y, z |-> z]

\* The catch block returning a box of the base bar (W x T x depth).
FrameGeoBarBox(p, failAt) ==
    LET run == RunFrameSteps(FrameSteps(p), 1,
                 [kind |-> "csg", deps |-> FrameDeps(p), operations |-> <<>>,
                  groups |-> 1, normalsComputed |-> FALSE], failAt)
    IN IF run.threw
         THEN BoxGeometry(p.baseWidth, p.barThickness, p.depth)
         ELSE run.value

\* frameGeo without the try/catch: the exception leaves the function.
FrameGeoNoCatch(p, failAt) ==
    LET run == RunFrameSteps(FrameSteps(p), 1,
                 [kind |-> "csg", deps |-> FrameDeps(p), operations |-> <<>>,
                  groups |-> 1, normalsComputed |-> FALSE], failAt)
    IN IF run.threw THEN [kind |-> "thrown"] ELSE run.value

\* The value of the frameGeo useMemo callback: the try block, and the catch.
FrameGeo(p, failAt) ==
    LET run == RunFrameSteps(FrameSteps(p), 1,
                 [kind |-> "csg", deps |-> FrameDeps(p), operations |-> <<>>,
                  groups |-> 1, normalsComputed |-> FALSE], failAt)
    IN IF run.threw
         THEN BoxGeometry(p.baseWidth, p.triangleHeight, p.depth)
         ELSE run.value

\* new THREE.LatheGeometry(points, 32) of the grip tube
GripTubeGeo(p) ==
    [kind |-> "lathe", innerR |-> GripInnerR(p), outerR |-> GripOuterR(p) - 5,
     totalLen |-> p.depth + p.gripExtension * 2]

\* new THREE.CapsuleGeometry(footR, depth * 0.7, 8, 16)
FootGeo(p) == [kind |-> "capsule", radius |-> p.footRadius, length |-> (p.depth * 7) \div 10]

\* usePartInteraction.updatePartOverrides without customUpdateOverrides
HookUpdated(prev, ids, partial) ==
    [i \in 1..Len(prev) |->
        IF prev[i].id \in ids
          THEN [prev[i] EXCEPT !.overrides = Patch(@, partial)]
          ELSE prev[i]]

ParaletteIds == PartIds(INITIAL_PARTS)

ParaletteUnmounted ==
    /\ pParams = ParaletteDefaultParams
    /\ pParts = <<>>
    /\ pSelected = {}
    /\ pFrameGeo = [kind |-> "none"]
    /\ pGripTubeGeo = [kind |-> "none"]
    /\ pFootGeo = [kind |-> "none"]
    /\ pFrameFail = 0
    /\ pCrashed = FALSE

\* The first render: every useMemo callback runs.
ParaletteMounted ==
    /\ pParams = ParaletteDefaultParams
    /\ pParts = INITIAL_PARTS
    /\ pSelected = {}
    /\ \E failAt \in FrameFailPoints :
         /\ pFrameFail = failAt
         /\ pFrameGeo = FrameGeo(pParams, failAt)
    /\ pCrashed = (pFrameGeo.kind = "thrown")
    /\ pGripTubeGeo = IF pCrashed THEN [kind |-> "none"] ELSE GripTubeGeo(pParams)
    /\ pFootGeo = IF pCrashed THEN [kind |-> "none"] ELSE FootGeo(pParams)

\* A render with a new params prop: each useMemo callback runs again when its
\* dependencies changed, in the order frameGeo, gripTubeGeo, footGeo. An
\* exception leaving a callback ends the render: the component is torn down.
ParaletteRender(newParams, failAt) ==
    LET frameRuns == FrameDeps(newParams) # FrameDeps(pParams)
        frame == IF frameRuns THEN FrameGeo(newParams, failAt) ELSE pFrameGeo
    IN /\ pParams' = newParams
       /\ pFrameFail' = IF frameRuns THEN failAt ELSE pFrameFail
       /\ IF frame.kind = "thrown"
            THEN /\ pCrashed' = TRUE
                 /\ pParts' = <<>>
                 /\ pSelected' = {}
                 /\ pFrameGeo' = [kind |-> "none"]
                 /\ pGripTubeGeo' = [kind |-> "none"]
                 /\ pFootGeo' = [kind |-> "none"]
            ELSE /\ pFrameGeo' = frame
                 /\ pGripTubeGeo' = IF GripTubeDeps(newParams) # GripTubeDeps(pParams)
                                      THEN GripTubeGeo(newParams) ELSE pGripTubeGeo
                 /\ pFootGeo' = IF FootDeps(newParams) # FootDeps(pParams)
                                  THEN FootGeo(newParams) ELSE pFootGeo
                 /\ UNCHANGED <<pParts, pSelected, pCrashed>>

\* The memo callbacks that run in the render following a step.
ParaletteRebuilt ==
    IF pCrashed' THEN {}
    ELSE { g \in {"frameGeo"} : FrameDeps(pParams') # FrameDeps(pParams) }
           \cup { g \in {"gripTubeGeo"} : GripTubeDeps(pParams') # GripTubeDeps(pParams) }
           \cup { g \in {"footGeo"} : FootDeps(pParams') # FootDeps(pParams) }

ParaletteSetParam ==
    /\ activeId = "paralette" /\ ops < MaxOps /\ ~pCrashed
    /\ UNCHANGED notParaletteVars
    /\ \E k \in ParaletteKeys :
         \E v \in {ParaletteDefaultParams[k], ParaletteOtherParams[k]} :
            /\ v # pParams[k]
            /\ \E failAt \in FrameFailPoints :
                 \* the outcome is drawn only when the frame is built again
                 /\ (failAt # 0 => FrameDeps([pParams EXCEPT ![k] = v]) # FrameDeps(pParams))
                 /\ ParaletteRender([pParams EXCEPT ![k] = v], failAt)
    /\ ops' = ops + 1
    /\ UNCHANGED hoveredId

\* usePartInteraction.deleteSelected
ParaletteDeleteSelected ==
    /\ activeId = "paralette" /\ ops < MaxOps /\ ~pCrashed
    /\ UNCHANGED notParaletteVars
    /\ IF Cardinality(pSelected) > 0
         THEN /\ pParts' = Filter(pParts, pSelected)
              /\ pSelected' = {}
         ELSE UNCHANGED <<pParts, pSelected>>
    /\ ops' = ops + 1
    /\ UNCHANGED <<pParams, pFrameGeo, pGripTubeGeo, pFootGeo, pFrameFail, pCrashed>>
    /\ UNCHANGED hoveredId

ParaletteUpdatePartOverrides ==
    /\ activeId = "paralette" /\ ops < MaxOps /\ ~pCrashed
    /\ UNCHANGED notParaletteVars
    /\ \E ids \in ({pSelected} \cup { {i} : i \in ParaletteIds }) \ {{}} :
         \E partial \in Partials :
            pParts' = HookUpdated(pParts, ids, partial)
    /\ ops' = ops + 1
    /\ UNCHANGED <<pParams, pSelected, pFrameGeo, pGripTubeGeo, pFootGeo, pFrameFail, pCrashed>>
    /\ UNCHANGED hoveredId

\* The updater of onSelect when a plain click on the sole selected part keeps
\* it selected.
SelectedWithoutToggle(prev, id, isMulti) ==
    IF isMulti
      THEN (IF id \in prev THEN prev \ {id} ELSE prev \cup {id})
      ELSE {id}

\* The updater of usePartInteraction.onSelect(id, e), isMulti being
\* e.nativeEvent.metaKey || e.nativeEvent.ctrlKey.
Selected(prev, id, isMulti) ==
    IF isMulti
      THEN (IF id \in prev THEN prev \ {id} ELSE prev \cup {id})
      ELSE (IF Cardinality(prev) = 1 /\ id \in prev THEN {} ELSE {id})

\* onCanvasClick with the threshold reached at 5 px.
CanvasClickedFrom25(prev, dx, dy) ==
    IF dx * dx + dy * dy >= 25 THEN prev ELSE {}

\* usePartInteraction.onCanvasClick: dx, dy the distance in pixels of the click
\* from pointerDownPos, which onCanvasPointerDown stored at the pointer-down of
\* the same click.
CanvasClicked(prev, dx, dy) ==
    IF dx * dx + dy * dy > 25 THEN prev ELSE {}

\* A click on a part whose event goes on to the onClick of the enclosing group,
\* the pointer not having moved.
PartClickedPropagating(prev, id, isMulti) ==
    CanvasClicked(Selected(prev, id, isMulti), 0, 0)

\* A click on a rendered part: the onClick of its mesh runs onSelect, whose
\* e.stopPropagation() ends the dispatch before the onClick of the enclosing
\* group (onCanvasClick).
PartClicked(prev, id, isMulti) == Selected(prev, id, isMulti)

\* The pixels the pointer moves between pointer-down and click.
ClickDx == {0, 3, 6}
ClickDy == {0, 4}

ParaletteSelectAt(id, isMulti) ==
    /\ activeId = "paralette" /\ ops < MaxOps /\ ~pCrashed
    /\ UNCHANGED notParaletteVars
    /\ id \in PartIds(pParts)
    /\ pSelected' = PartClicked(pSelected, id, isMulti)
    /\ ops' = ops + 1
    /\ UNCHANGED <<pParams, pParts, pFrameGeo, pGripTubeGeo, pFootGeo, pFrameFail, pCrashed>>
    /\ UNCHANGED hoveredId

\* usePartInteraction.onSelect: a click on a rendered part, plain or with Ctrl/Meta.
ParaletteOnSelect ==
    \E id \in ParaletteIds : \E isMulti \in BOOLEAN : ParaletteSelectAt(id, isMulti)

ParaletteCanvasClickAt(dx, dy) ==
    /\ activeId = "paralette" /\ ops < MaxOps /\ ~pCrashed
    /\ UNCHANGED notParaletteVars
    /\ pSelected' = CanvasClicked(pSelected, dx, dy)
    /\ ops' = ops + 1
    /\ UNCHANGED <<pParams, pParts, pFrameGeo, pGripTubeGeo, pFootGeo, pFrameFail, pCrashed>>
    /\ UNCHANGED hoveredId

\* usePartInteraction.onCanvasClick after onCanvasPointerDown: a click on the
\* invisible plane of the group.
ParaletteOnCanvasClick ==
    \E dx \in ClickDx : \E dy \in ClickDy : ParaletteCanvasClickAt(dx, dy)

\* onHover(id, e): the pointer enters a rendered part.
ParaletteOnHover ==
    /\ activeId = "paralette" /\ ops < MaxOps /\ ~pCrashed
    /\ \E id \in PartIds(pParts) : hoveredId' = id
    /\ ops' = ops + 1
    /\ UNCHANGED <<paraletteVars, notParaletteVars>>

\* onUnhover: the pointer leaves the part it entered.
ParaletteOnUnhover ==
    /\ activeId = "paralette" /\ ops < MaxOps /\ ~pCrashed
    /\ hoveredId # NoHover
    /\ hoveredId' = NoHover
    /\ ops' = ops + 1
    /\ UNCHANGED <<paraletteVars, notParaletteVars>>

ParaletteNext ==
    \/ ParaletteSetParam
    \/ ParaletteDeleteSelected
    \/ ParaletteUpdatePartOverrides
    \/ ParaletteOnSelect
    \/ ParaletteOnCanvasClick

(***************************************************************************)
(* TriangleInfill: geometry helpers.                                       *)
(*                                                                         *)
(* The honeycomb grid has column spacing sqrt(3) * cellSize, so the x      *)
(* coordinate of a cell is an integer multiple of sqrt(3); a number        *)
(* a + b * sqrt(3) is held as the pair <<a, b>> and its sign is computed   *)
(* exactly. The grid is computed in tenths of a unit; an input whose       *)
(* intermediate values are not whole tenths has no value here (ExactDiv    *)
(* and Sqrt are undefined on it) rather than a rounded one.                *)
(***************************************************************************)
PATTERN == [NONE |-> 0, HONEYCOMB |-> 1000, TRIANGLE |-> 2000]

InfillDefaultOverrides ==
    [scaleX |-> 1000, scaleY |-> 1000, scaleZ |-> 1000, bevelRadius |-> 400, bevelSegments |-> 3]

\* The threshold of `if (holeR <= 0.01)`, in thousandths.
HoleREps == 10

Abs(x) == IF x < 0 THEN -x ELSE x

SignInt(x) == IF x > 0 THEN 1 ELSE IF x < 0 THEN -1 ELSE 0

\* The sign of a + b * sqrt(3). For a and b of opposite signs |a| is compared
\* with |b| * sqrt(3) through 989/571 < sqrt(3) < 1351/780, and through the
\* squares when the two bounds do not decide.
SignSqrt3(a, b) ==
    IF b = 0 THEN SignInt(a)
    ELSE IF a = 0 \/ SignInt(a) = SignInt(b) THEN SignInt(b)
    ELSE IF Abs(a) * 780 > Abs(b) * 1351 THEN SignInt(a)
    ELSE IF Abs(a) * 571 < Abs(b) * 989 THEN SignInt(b)
    ELSE IF a * a > 3 * b * b THEN SignInt(a) ELSE SignInt(b)

\* a / b where the quotient is a whole number; undefined otherwise.
ExactDiv(a, b) == IF a % b = 0 THEN a \div b ELSE CHOOSE q \in {} : TRUE

\* Math.sqrt(n) where n is a perfect square; undefined otherwise.
Sqrt(n) == CHOOSE r \in 0..n : r * r = n

\* Math.ceil(a / b) for b > 0
CeilDiv(a, b) == -((-a) \div b)

\* Math.ceil(x / (c * sqrt(3))) for x >= 0 and c > 0
CeilOverSqrt3(x, c) ==
    CHOOSE n \in 0..((x \div c) + 1) :
        /\ SignSqrt3(-x, n * c) >= 0
        /\ (n = 0 \/ SignSqrt3(-x, (n - 1) * c) < 0)

Min3(a, b, c) == IF a <= b /\ a <= c THEN a ELSE IF b <= c THEN b ELSE c
Max3(a, b, c) == IF a >= b /\ a >= c THEN a ELSE IF b >= c THEN b ELSE c

\* The % of JavaScript: the remainder has the sign of the dividend.
JsRem(a, n) == IF a >= 0 THEN a % n ELSE -((-a) % n)

Tenths(v) == ExactDiv(v, 100)

\* A test that accepts the points on the non-negative side of every edge only.
PointInTriangleOneWinding(px, py, v0, v1, v2) ==
    LET D(p, q) ==
            SignSqrt3((px[1] - q[1]) * (p[2] - q[2]) - (p[1] - q[1]) * (py - q[2]),
                      px[2] * (p[2] - q[2]))
    IN D(v0, v1) >= 0 /\ D(v1, v2) >= 0 /\ D(v2, v0) >= 0

\* pointInTriangle(px, py, v0, v1, v2), px being a pair <<a, b>> for
\* a + b * sqrt(3) and py and the vertex coordinates whole numbers.
PointInTriangle(px, py, v0, v1, v2) ==
    LET D(p, q) ==
            SignSqrt3((px[1] - q[1]) * (p[2] - q[2]) - (p[1] - q[1]) * (py - q[2]),
                      px[2] * (p[2] - q[2]))
        d1 == D(v0, v1)
        d2 == D(v1, v2)
        d3 == D(v2, v0)
        hasNeg == (d1 < 0) \/ (d2 < 0) \/ (d3 < 0)
        hasPos == (d1 > 0) \/ (d2 > 0) \/ (d3 > 0)
    IN ~(hasNeg /\ hasPos)

GetInnerTriVerts(hw, H, T) ==
    << <<-hw + ExactDiv(T, 2), ExactDiv(T, 2)>>,
       <<hw - ExactDiv(T, 2), ExactDiv(T, 2)>>,
       <<0, H - ExactDiv(T, 2)>> >>

\* createInnerTriangleSolid: the extrusion of the inner triangle moved by
\* offset along the lines to its centroid (the moved vertices are kept as the
\* inner vertices and the offset).
CreateInnerTriangleSolid(hw, H, T, depth, offset) ==
    [kind |-> "extrude", verts |-> GetInnerTriVerts(hw, H, T), offset |-> offset,
     depth |-> depth]

\* expandedVerts of createHoneycombSlab: each vertex moved away from the
\* centroid by margin.
ExpandedVerts(verts, margin) ==
    LET cx == ExactDiv(verts[1][1] + verts[2][1] + verts[3][1], 3)
        cy == ExactDiv(verts[1][2] + verts[2][2] + verts[3][2], 3)
        Move(v) ==
            LET dx == v[1] - cx
                dy == v[2] - cy
                dist == Sqrt(dx * dx + dy * dy)
            IN <<v[1] + ExactDiv(dx * margin, dist), v[2] + ExactDiv(dy * margin, dist)>>
    IN <<Move(verts[1]), Move(verts[2]), Move(verts[3])>>

\* The parity as rowIdx % 2 alone, with the % of JavaScript.
RowParityRemainderOnly(rowIdx) == JsRem(rowIdx, 2)

\* const rowParity = ((rowIdx % 2) + 2) % 2
RowParity(rowIdx) == (JsRem(rowIdx, 2) + 2) % 2

\* The sign of holeR - bound, holeR = cellSize - wallThickness / Math.sqrt(3)
\* (the sign of (cellSize - bound) * sqrt(3) - wallThickness).
HoleRSign(cellSize, wallThickness, bound) == SignSqrt3(-wallThickness, cellSize - bound)

HoleTooSmallAtZero(cellSize, wallThickness) == HoleRSign(cellSize, wallThickness, 0) <= 0

\* if (holeR <= 0.01)
HoleTooSmall(cellSize, wallThickness) == HoleRSign(cellSize, wallThickness, HoleREps) <= 0

\* createHoneycombSlab. The arguments are in thousandths; the slab is the
\* bounding rectangle of the expanded triangle with one hexagonal hole per
\* kept cell, a cell being named by <<rowIdx, colIdx>>. (expandedVerts is
\* computed once and bound to ev.)
CreateHoneycombSlab(hw, H, T, cellSize, wallThickness, depth, fromTop) ==
    LET cs == Tenths(cellSize)
        innerVerts == GetInnerTriVerts(Tenths(hw), Tenths(H), Tenths(T))
        margin == ExactDiv(cs * 3, 2)
        SlabOf(ev) ==
            LET minX == Min3(ev[1][1], ev[2][1], ev[3][1])
                maxX == Max3(ev[1][1], ev[2][1], ev[3][1])
                minY == Min3(ev[1][2], ev[2][2], ev[3][2])
                maxY == Max3(ev[1][2], ev[2][2], ev[3][2])
                spacingY == ExactDiv(3 * cs, 2)
                halfSpacingX == ExactDiv(cs, 2)  \* spacingX / 2 = halfSpacingX * sqrt(3)
                anchorY == IF fromTop THEN innerVerts[3][2] ELSE innerVerts[1][2]
                rowsDown == CeilDiv(anchorY - minY, spacingY) + 2
                rowsUp == CeilDiv(maxY - anchorY, spacingY) + 2
                colsHalf == CeilOverSqrt3(maxX - minX, cs) + 2
                CellY(rowIdx) == anchorY + rowIdx * spacingY
                CellX(rowIdx, colIdx) ==
                    <<0, colIdx * cs + (IF RowParity(rowIdx) = 1 THEN halfSpacingX ELSE 0)>>
                rows == { rowIdx \in (-rowsDown)..rowsUp :
                            ~(CellY(rowIdx) < minY - cs \/ CellY(rowIdx) > maxY + cs) }
                cells == { rc \in rows \X ((-colsHalf)..colsHalf) :
                            PointInTriangle(CellX(rc[1], rc[2]), CellY(rc[1]),
                                            ev[1], ev[2], ev[3]) }
            IN [kind |-> "extrude",
                outline |-> <<minX, minY, maxX, maxY>>,
                depth |-> depth + 20,
                holes |-> IF HoleTooSmall(cellSize, wallThickness) THEN {} ELSE cells,
                rows |-> IF HoleTooSmall(cellSize, wallThickness) THEN <<>>
                         ELSE [rowIdx \in rows |->
                                 [cy |-> CellY(rowIdx), rowParity |-> RowParity(rowIdx),
                                  offset |-> CellX(rowIdx, 0)]]]
    IN CHOOSE slab \in { SlabOf(ev) : ev \in {ExpandedVerts(innerVerts, margin)} } : TRUE

\* createTriangleSlab: three families of parallel wall boxes, one box for
\* each d = -diag, -diag + cellSize, ... <= diag, merged into one geometry.
CreateTriangleSlab(hw, H, T, cellSize, wallThickness, depth, fromTop) ==
    LET cs == Tenths(cellSize)
        margin == cs * 2
        slabW == 2 * Tenths(hw) + 4 * margin
        slabH == Tenths(H) + 4 * margin
        diagSq == slabW * slabW + slabH * slabH
        last == CHOOSE k \in 0..((2 * (slabW + slabH)) \div cs) :
                    /\ (k * cs) * (k * cs) <= 4 * diagSq
                    /\ ((k + 1) * cs) * ((k + 1) * cs) > 4 * diagSq
    IN [kind |-> "merged",
        boxes |-> 3 * (last + 1),
        wall |-> wallThickness,
        anchorY |-> IF fromTop THEN H - ExactDiv(T, 2) ELSE ExactDiv(T, 2),
        depth |-> depth + 20]

(***************************************************************************)
(* TriangleInfill: generateInfill                                          *)
(***************************************************************************)
\* The steps of generateInfill at which an exception can be raised: 0 none,
\* 1 the pattern slab builder, 2 createInnerTriangleSolid, 3 new Evaluator /
\* new Brush / updateMatrixWorld, 4 evaluator.evaluate, 5 computeVertexNormals.
InfillFailPoints == 0..5

\* The steps that lie inside the try block.
InfillTrySteps == 3..5

NoGeometry == [kind |-> "none"]

\* generateInfill was not called.
InfillNotRun == [outcome |-> "notRun", geo |-> NoGeometry, built |-> {}, disposed |-> {}]

InfillReturn(outcome, geo, built, disposed) ==
    [outcome |-> outcome, geo |-> geo, built |-> built, disposed |-> disposed]

PatternSlab(pattern, hw, H, T, cellSize, wallThickness, depth, fromTop) ==
    IF pattern = PATTERN.HONEYCOMB
      THEN CreateHoneycombSlab(hw, H, T, cellSize, wallThickness, depth, fromTop)
      ELSE CreateTriangleSlab(hw, H, T, cellSize, wallThickness, depth, fromTop)

\* generateInfill; failAt is the step that throws. The result records what
\* the call returned ("null", "geometry") or that it threw ("thrown"), the
\* geometries it built and the ones it disposed.
GenerateInfill(pattern, hw, H, T, cellSize, wallThickness, depth, fromTop, failAt) ==
    IF pattern = PATTERN.NONE THEN InfillReturn("null", NoGeometry, {}, {})
    ELSE IF pattern \notin {PATTERN.HONEYCOMB, PATTERN.TRIANGLE}
      THEN InfillReturn("null", NoGeometry, {}, {})
    ELSE IF failAt = 1 THEN InfillReturn("thrown", NoGeometry, {}, {})
    ELSE
      LET patternGeo == PatternSlab(pattern, hw, H, T, cellSize, wallThickness, depth, fromTop)
          outset == -((T * 3) \div 10)
          triangleGeo == CreateInnerTriangleSolid(hw, H, T, depth, outset)
      IN IF failAt = 2 THEN InfillReturn("thrown", NoGeometry, {"patternGeo"}, {})
         ELSE IF failAt \in InfillTrySteps
           THEN InfillReturn("null", NoGeometry, {"patternGeo", "triangleGeo"},
                             {"patternGeo", "triangleGeo"})
         ELSE InfillReturn("geometry",
                [kind |-> "csg", operation |-> "INTERSECTION", a |-> triangleGeo,
                 b |-> patternGeo, normalsComputed |-> TRUE, groupsCleared |-> FALSE],
                {"patternGeo", "triangleGeo"}, {"patternGeo", "triangleGeo"})

(***************************************************************************)
(* TriangleInfill: the component                                           *)
(***************************************************************************)
\* The triangle of the model: baseWidth 50, triangleHeight 56, wallThickness 2
\* (all on their sliders' steps), chosen so that the expanded triangle of the
\* honeycomb grid has whole coordinates.
InfillBaseParams ==
    [baseWidth |-> 50000, triangleHeight |-> 56000, wallThickness |-> 2000,
     depth |-> 10000, fillPattern |-> 1000, patternOrigin |-> 0,
     cellSize |-> 6000, infillWallThickness |-> 800]

\* The values the parameter panel sets, each within its paramDefs range.
InfillParamValues ==
    [depth |-> {10000, 12000},
     fillPattern |-> {PATTERN.NONE, PATTERN.HONEYCOMB, 1400, PATTERN.TRIANGLE},
     patternOrigin |-> {0, 600, 1000},
     cellSize |-> {6000, 12000},
     infillWallThickness |-> {800, 3000}]

InfillKeys == DOMAIN InfillParamValues

InfillInitialParts ==
    << [id |-> <<"frame", 0>>, type |-> "frame", overrides |-> InfillDefaultOverrides],
       [id |-> <<"infill", 0>>, type |-> "infill", overrides |-> InfillDefaultOverrides] >>

InfillIds == PartIds(InfillInitialParts)

\* How the build treats the const declarations of the component function:
\* kept as const (ES2015 and later) or lowered to var (ES5).
InfillBuilds == {"const", "var"}

\* The dependency array of getPartBaseDimensions reads frameGeo and infillGeo
\* above their const declarations: with const kept the read throws a
\* ReferenceError on every render, with var it reads undefined.
DepsReadThrows(build) == build = "const"

InfillHw(p) == p.baseWidth \div 2

\* generateInfill(pattern, hw, H, T, cellSize, infillWall, depth, fromTop)
InfillGeo(p, failAt) ==
    GenerateInfill(p.fillPattern, InfillHw(p), p.triangleHeight, p.wallThickness,
                   p.cellSize, p.infillWallThickness, p.depth, p.patternOrigin = 1000, failAt)

InfillGeoDeps(p) ==
    <<p.fillPattern, InfillHw(p), p.triangleHeight, p.wallThickness, p.cellSize,
      p.infillWallThickness, p.depth, p.patternOrigin = 1000>>

\* parts.find(p => p.id === 'frame')?.overrides ?? DEFAULT_OVERRIDES
FrameBevel(ps) ==
    IF \E i \in 1..Len(ps) : ps[i].id = <<"frame", 0>>
      THEN ps[CHOOSE i \in 1..Len(ps) : ps[i].id = <<"frame", 0>>].overrides
      ELSE InfillDefaultOverrides

InfillFrameDeps(p, ov) ==
    <<InfillHw(p), p.triangleHeight, p.wallThickness, p.depth, ov.bevelRadius, ov.bevelSegments>>

\* The extruded outer frame; bevelSize = bevelRadius * T * 0.25.
InfillFrameGeo(p, ov) ==
    [kind |-> "extrude", hw |-> InfillHw(p), H |-> p.triangleHeight, T |-> p.wallThickness,
     depth |-> p.depth, bevelEnabled |-> ov.bevelRadius > 0,
     bevelSize |-> (ov.bevelRadius * p.wallThickness) \div 4000,
     bevelSegments |-> ov.bevelSegments, normalsComputed |-> TRUE]

\* Does generateInfill build geometry for these params?
InfillBuildsGeometry(p) == p.fillPattern \in {PATTERN.HONEYCOMB, PATTERN.TRIANGLE}

InfillUnmounted ==
    /\ iBuild = "none"
    /\ iParams = InfillBaseParams
    /\ iParts = <<>>
    /\ iSelected = {}
    /\ iDeleted = {}
    /\ iFrameGeo = NoGeometry
    /\ iInfill = InfillNotRun
    /\ iFail = 0
    /\ iCrashed = FALSE

\* The first render and the mount effect. The render evaluates the hooks in
\* source order: the dependency array of getPartBaseDimensions, then the
\* frameGeo memo, then the infillGeo memo; an exception ends it.
InfillMounted ==
    /\ iBuild \in InfillBuilds
    /\ \E fp \in InfillParamValues.fillPattern :
         iParams = [InfillBaseParams EXCEPT !.fillPattern = fp]
    /\ iSelected = {}
    /\ iDeleted = {}
    /\ \E failAt \in InfillFailPoints :
         /\ (failAt # 0 => ~DepsReadThrows(iBuild) /\ InfillBuildsGeometry(iParams))
         /\ iFail = failAt
         /\ iInfill = IF DepsReadThrows(iBuild) THEN InfillNotRun ELSE InfillGeo(iParams, failAt)
    /\ iCrashed = (DepsReadThrows(iBuild) \/ iInfill.outcome = "thrown")
    /\ iFrameGeo = IF iCrashed THEN NoGeometry
                   ELSE InfillFrameGeo(iParams, InfillDefaultOverrides)
    /\ iParts = IF iCrashed THEN <<>> ELSE InfillInitialParts

\* A render with new params or parts: each useMemo callback runs again when
\* its dependencies changed, frameGeo before infillGeo. An exception leaving
\* generateInfill ends the render: the component is torn down.
InfillRender(newParams, newParts, failAt) ==
    LET frameRuns == InfillFrameDeps(newParams, FrameBevel(newParts))
                       # InfillFrameDeps(iParams, FrameBevel(iParts))
        infillRuns == InfillGeoDeps(newParams) # InfillGeoDeps(iParams)
        infill == IF infillRuns THEN InfillGeo(newParams, failAt) ELSE iInfill
    IN /\ iParams' = newParams
       /\ iFail' = IF infillRuns THEN failAt ELSE iFail
       /\ iInfill' = infill
       /\ IF infill.outcome = "thrown"
            THEN /\ iCrashed' = TRUE
                 /\ iParts' = <<>>
                 /\ iFrameGeo' = NoGeometry
            ELSE /\ iCrashed' = iCrashed
                 /\ iParts' = newParts
                 /\ iFrameGeo' = IF frameRuns
                                   THEN InfillFrameGeo(newParams, FrameBevel(newParts))
                                   ELSE iFrameGeo

\* hasPart(type)
InfillHasPart(type) == \E i \in 1..Len(iParts) : iParts[i].type = type

\* The meshes of the returned JSX: the frame when hasPart('frame'), the infill
\* when hasPart('infill') && infillGeo.
InfillRenderedMeshes ==
    IF iCrashed THEN {}
    ELSE { t \in {"frame"} : InfillHasPart(t) }
         \cup { t \in {"infill"} : InfillHasPart(t) /\ iInfill.outcome = "geometry" }

\* The memo callbacks that run in the render following a step.
InfillRebuilt ==
    IF iCrashed' THEN {}
    ELSE { g \in {"frameGeo"} :
             InfillFrameDeps(iParams', FrameBevel(iParts'))
               # InfillFrameDeps(iParams, FrameBevel(iParts)) }
           \cup { g \in {"infillGeo"} : InfillGeoDeps(iParams') # InfillGeoDeps(iParams) }

\* The parameter panel sets one key of the params prop.
InfillSetParam ==
    /\ activeId = "triangle-infill" /\ ops < MaxOps /\ ~iCrashed /\ iBuild \in InfillBuilds
    /\ UNCHANGED notInfillVars
    /\ \E k \in InfillKeys : \E v \in InfillParamValues[k] :
         /\ v # iParams[k]
         /\ \E failAt \in InfillFailPoints :
              \* the outcome is drawn only when generateInfill builds geometry
              \E newParams \in {[iParams EXCEPT ![k] = v]} :
                 /\ (failAt # 0 => InfillBuildsGeometry(newParams))
                 /\ InfillRender(newParams, iParts, failAt)
    /\ ops' = ops + 1
    /\ UNCHANGED <<iBuild, iSelected, iDeleted>>
    /\ UNCHANGED hoveredId

\* deleteSelected
InfillDeleteSelected ==
    /\ activeId = "triangle-infill" /\ ops < MaxOps /\ ~iCrashed /\ iBuild \in InfillBuilds
    /\ UNCHANGED notInfillVars
    /\ IF Cardinality(iSelected) > 0
         THEN /\ InfillRender(iParams, Filter(iParts, iSelected), 0)
              /\ iSelected' = {}
              /\ iDeleted' = iDeleted \cup (iSelected \cap PartIds(iParts))
         ELSE UNCHANGED <<iParams, iParts, iSelected, iDeleted, iFrameGeo, iInfill, iFail, iCrashed>>
    /\ ops' = ops + 1
    /\ UNCHANGED iBuild
    /\ UNCHANGED hoveredId

\* updatePartOverrides(ids, partial)
InfillUpdatePartOverrides ==
    /\ activeId = "triangle-infill" /\ ops < MaxOps /\ ~iCrashed /\ iBuild \in InfillBuilds
    /\ UNCHANGED notInfillVars
    /\ \E ids \in ({iSelected} \cup { {i} : i \in InfillIds }) \ {{}} :
         \E partial \in Partials :
            InfillRender(iParams, HookUpdated(iParts, ids, partial), 0)
    /\ ops' = ops + 1
    /\ UNCHANGED <<iBuild, iSelected, iDeleted>>
    /\ UNCHANGED hoveredId

\* onSelect(id, e), raised by a click on a rendered mesh
InfillOnSelect ==
    /\ activeId = "triangle-infill" /\ ops < MaxOps /\ ~iCrashed /\ iBuild \in InfillBuilds
    /\ UNCHANGED notInfillVars
    /\ \E id \in { i \in InfillIds : i[1] \in InfillRenderedMeshes } :
         \E isMulti \in BOOLEAN :
            iSelected' =
               IF isMulti
                 THEN (IF id \in iSelected THEN iSelected \ {id} ELSE iSelected \cup {id})
                 ELSE (IF Cardinality(iSelected) = 1 /\ id \in iSelected THEN {} ELSE {id})
    /\ ops' = ops + 1
    /\ UNCHANGED <<iBuild, iParams, iParts, iDeleted, iFrameGeo, iInfill, iFail, iCrashed>>
    /\ UNCHANGED hoveredId

\* onCanvasClick after onCanvasPointerDown
InfillOnCanvasClick ==
    /\ activeId = "triangle-infill" /\ ops < MaxOps /\ ~iCrashed /\ iBuild \in InfillBuilds
    /\ UNCHANGED notInfillVars
    /\ \E dx \in {0, 3, 6} : \E dy \in {0, 4} :
         IF dx * dx + dy * dy > 25
           THEN UNCHANGED iSelected
           ELSE iSelected' = {}
    /\ ops' = ops + 1
    /\ UNCHANGED <<iBuild, iParams, iParts, iDeleted, iFrameGeo, iInfill, iFail, iCrashed>>
    /\ UNCHANGED hoveredId

\* onHover(id, e): the pointer enters a rendered part.
InfillOnHover ==
    /\ activeId = "triangle-infill" /\ ops < MaxOps /\ ~iCrashed /\ iBuild \in InfillBuilds
    /\ \E id \in { i \in InfillIds : i[1] \in InfillRenderedMeshes } : hoveredId' = id
    /\ ops' = ops + 1
    /\ UNCHANGED <<infillVars, notInfillVars>>

\* onUnhover: the pointer leaves the part it entered.
InfillOnUnhover ==
    /\ activeId = "triangle-infill" /\ ops < MaxOps /\ ~iCrashed /\ iBuild \in InfillBuilds
    /\ hoveredId # NoHover
    /\ hoveredId' = NoHover
    /\ ops' = ops + 1
    /\ UNCHANGED <<infillVars, notInfillVars>>

InfillNext ==
    \/ InfillSetParam
    \/ InfillDeleteSelected
    \/ InfillUpdatePartOverrides
    \/ InfillOnSelect
    \/ InfillOnCanvasClick

(***************************************************************************)
(* createHoneycombSlab as a function of its arguments                      *)
(***************************************************************************)
\* The arguments of the calls: two triangles with whole expanded
\* coordinates, two cell sizes, and wall thicknesses on both sides of
\* cellSize * sqrt(3) (5.196 for cellSize 3, 10.392 for cellSize 6).
HoneycombInputs ==
    { [hw |-> t[1], H |-> t[2], T |-> 2000, cellSize |-> c, wallThickness |-> w,
       depth |-> d, fromTop |-> f] :
        t \in {<<25000, 56000>>, <<21000, 47000>>},
        c \in {3000, 6000},
        w \in {800, 3000, 5170, 5190, 10380, 10400, 12000},
        d \in {10000, 12000},
        f \in BOOLEAN }

HoneycombIdle == hArgs = <<>> /\ hSlab = NoGeometry

HoneycombCall ==
    /\ hSlab = NoGeometry
    /\ hSlab' = CreateHoneycombSlab(hArgs.hw, hArgs.H, hArgs.T, hArgs.cellSize,
                                    hArgs.wallThickness, hArgs.depth, hArgs.fromTop)
    /\ UNCHANGED <<hArgs, ops, notHoneycombVars>>

HoneycombNewArgs ==
    /\ hSlab # NoGeometry
    /\ hArgs' \in HoneycombInputs \ {hArgs}
    /\ hSlab' = NoGeometry
    /\ UNCHANGED <<ops, notHoneycombVars>>

HoneycombNext == HoneycombCall \/ HoneycombNewArgs

(***************************************************************************)
(* pointInTriangle on its own                                              *)
(***************************************************************************)
\* The points with whole coordinates in 0..MaxCoord.
GridPoints == (0..MaxCoord) \X (0..MaxCoord)

\* The calls pointInTriangle(px, py, v0, v1, v2) with every argument on the grid.
PointInputs == [p : GridPoints, v0 : GridPoints, v1 : GridPoints, v2 : GridPoints]

PointIdle == ptArgs = <<>> /\ ptResult = <<>>

PointCall ==
    /\ ptArgs # <<>> /\ ptResult = <<>>
    /\ ptResult' = << PointInTriangle(<<ptArgs.p[1], 0>>, ptArgs.p[2],
                                      ptArgs.v0, ptArgs.v1, ptArgs.v2) >>
    /\ UNCHANGED <<ptArgs, ops, notPointVars>>

PointNext == PointCall

(***************************************************************************)
(* App: the working unit, the params of every project, and the export       *)
(*                                                                         *)
(* A value is held in thousandths of the working unit. Factors are held as *)
(* fractions <<numerator, denominator>>.                                   *)
(***************************************************************************)
UnitSystems == {"mm", "cm"}

\* const MM_TO = { mm: 1, cm: 0.1 }
MM_TO == [mm |-> <<1, 1>>, cm |-> <<1, 10>>]

ProjectIds == {"wavy-structure", "paralette", "triangle-infill"}

\* The unitType of a paramDef: 'count' for finCount, fillPattern and
\* patternOrigin, 'length' for every other key.
UnitTypeOf(key) ==
    IF key \in {"finCount", "fillPattern", "patternOrigin"} THEN "count" ELSE "length"

\* convertValue: value / MM_TO[from] * MM_TO[to]
ConvertValue(value, unitType, from, to) ==
    IF unitType # "length" \/ from = to THEN value
    ELSE ExactDiv(value * MM_TO[from][2] * MM_TO[to][1], MM_TO[from][1] * MM_TO[to][2])

\* convertParams(params, paramDefs, from, to)
ConvertParams(params, from, to) ==
    IF from = to THEN params
    ELSE [key \in DOMAIN params |->
            IF UnitTypeOf(key) = "length"
              THEN ConvertValue(params[key], "length", from, to)
              ELSE params[key]]

\* stlScaleFactor(unit): 1 / MM_TO[unit]
StlScaleFactor(u) == <<MM_TO[u][2], MM_TO[u][1]>>

\* glbScaleFactor(unit): (1 / MM_TO[unit]) * 0.001
GlbScaleFactor(u) == <<MM_TO[u][2], MM_TO[u][1] * 1000>>

ExportFormats == {"stl", "glb"}

\* The factors of the export in mm, whatever the working unit.
ExportScaleIgnoringUnit(format, u) ==
    IF format = "stl" THEN StlScaleFactor("mm") ELSE GlbScaleFactor("mm")

\* downloadSTL / downloadGLB: the factor of wrapper.scale.setScalar(scale).
ExportScale(format, u) == IF format = "stl" THEN StlScaleFactor(u) ELSE GlbScaleFactor(u)

\* The exported size of a scene length v: the fraction v * scale.
ExportedLength(v, scale) == <<v * scale[1], scale[2]>>

\* The exported sizes of the lengths the params give, one for each length key.
ExportLengths(format, params, u) ==
    [key \in { k \in DOMAIN params : UnitTypeOf(k) = "length" } |->
        ExportedLength(params[key], ExportScale(format, u))]

NoExport == [format |-> "none"]

\* The args of the two boxGeometry of the WavyStructure base plate:
\* [baseWidth + 0.12, baseHeight * 0.5, baseDepth + 0.12] and
\* [baseWidth + 0.04, baseHeight * 0.5, baseDepth + 0.04].
BasePlateBoxes(p) ==
    << <<p.baseWidth + 120, ExactDiv(p.baseHeight, 2), p.baseDepth + 120>>,
       <<p.baseWidth + 40, ExactDiv(p.baseHeight, 2), p.baseDepth + 40>> >>

\* The slider positions the model moves, in mm, each on its paramDef's step.
UnitParamValues ==
    [p \in ProjectIds |->
        IF p = "wavy-structure" THEN [baseWidth |-> {35000, 36000}, baseHeight |-> {2000, 3000}]
        ELSE IF p = "paralette" THEN [depth |-> {8000, 9000}]
        ELSE [cellSize |-> {6000, 12000}, fillPattern |-> {1000, 2000}]]

\* The App state is not part of the specification.
NoHandle == [owner |-> "none"]
EmptyOverrides == [id \in {} |-> DEFAULT_OVERRIDES]
AppIdle ==
    /\ handle = NoHandle /\ partOverrides = EmptyOverrides /\ loaded = {}
    /\ appSelectedIds = {} /\ exporting = FALSE /\ glbPending = <<>>
UnitsIdle == unit = "mm" /\ paramsMap = <<>> /\ exported = NoExport /\ AppIdle

\* The paramsMap of the first render: { ...p.defaultParams } for every project
\* (triangle-infill at the triangle of the model).
InitialParamsMap ==
    [id \in ProjectIds |->
        IF id = "wavy-structure" THEN WavyDefaultParams
        ELSE IF id = "paralette" THEN ParaletteDefaultParams
        ELSE InfillBaseParams]

\* An update that keeps the new params of id and the first render's of the others.
ParamsMapSetFromInitial(prev, id, newParams) ==
    [p \in DOMAIN prev |-> IF p = id THEN newParams ELSE InitialParamsMap[p]]

\* setParamsMap((prev) => ({ ...prev, [activeProjectId]: newParams }))
ParamsMapSet(prev, id, newParams) ==
    [p \in DOMAIN prev |-> IF p = id THEN newParams ELSE prev[p]]

\* onParamsChange from the parameter panel of the active project, whose sliders
\* run over the paramDefs scaled to the working unit (scaleParamDef):
\* onChange({ ...params, [def.key]: v }).
UnitsOnParamsChange ==
    /\ \E key \in DOMAIN UnitParamValues[activeId] :
         \E v \in UnitParamValues[activeId][key] :
            /\ paramsMap[activeId][key] # ConvertValue(v, UnitTypeOf(key), "mm", unit)
            /\ paramsMap' = ParamsMapSet(paramsMap, activeId,
                                [paramsMap[activeId] EXCEPT
                                    ![key] = ConvertValue(v, UnitTypeOf(key), "mm", unit)])
    /\ exported' = NoExport
    /\ UNCHANGED <<unit, activeId, ops, notUnitVars>>

\* The onClick of a project button: setActiveProjectId(p.id).
UnitsSwitchProject ==
    /\ \E id \in ProjectIds : activeId' = id
    /\ UNCHANGED <<unit, paramsMap, exported, ops, notUnitVars>>

\* onUnitChange(newUnit)
UnitsOnUnitChange ==
    /\ \E newUnit \in UnitSystems :
         IF newUnit = unit
           THEN UNCHANGED <<unit, paramsMap>>
           ELSE /\ paramsMap' = [id \in DOMAIN paramsMap |->
                                   ConvertParams(paramsMap[id], unit, newUnit)]
                /\ unit' = newUnit
    /\ UNCHANGED <<exported, activeId, ops, notUnitVars>>

\* onExportSTL / onExportGLB of the active project.
UnitsExport ==
    /\ \E format \in ExportFormats :
         exported' = [format |-> format, project |-> activeId, unit |-> unit,
                      scale |-> ExportScale(format, unit),
                      lengths |-> ExportLengths(format, paramsMap[activeId], unit)]
    /\ UNCHANGED <<unit, paramsMap, activeId, ops, notUnitVars>>

UnitsNext == UnitsOnParamsChange \/ UnitsSwitchProject \/ UnitsOnUnitChange \/ UnitsExport

\* The application with wavy-structure as the active project.
WavyActive ==
    /\ WavyMounted /\ ParaletteUnmounted /\ InfillUnmounted /\ HoneycombIdle /\ PointIdle
    /\ UnitsIdle
    /\ activeId = "wavy-structure" /\ hoveredId = NoHover

WavyInit == WavyActive /\ ops = 0

SpecWavy == WavyInit /\ [][WavyNext]_vars

\* The application with paralette as the active project.
ParaletteActive ==
    /\ ParaletteMounted /\ WavyUnmounted /\ InfillUnmounted /\ HoneycombIdle /\ PointIdle
    /\ UnitsIdle
    /\ activeId = "paralette" /\ hoveredId = NoHover

ParaletteInit == ParaletteActive /\ ops = 0

SpecParalette == ParaletteInit /\ [][ParaletteNext]_vars

\* The application with triangle-infill as the active project.
InfillActive ==
    /\ InfillMounted /\ WavyUnmounted /\ ParaletteUnmounted /\ HoneycombIdle /\ PointIdle
    /\ UnitsIdle
    /\ activeId = "triangle-infill" /\ hoveredId = NoHover

InfillInit == InfillActive /\ ops = 0

SpecInfill == InfillInit /\ [][InfillNext]_vars

\* Calls of createHoneycombSlab, no component being mounted.
HoneycombInit ==
    /\ hArgs \in HoneycombInputs
    /\ hSlab = NoGeometry
    /\ WavyUnmounted /\ ParaletteUnmounted /\ InfillUnmounted /\ ops = 0
    /\ activeId = "none" /\ hoveredId = NoHover
    /\ PointIdle /\ UnitsIdle

SpecHoneycomb == HoneycombInit /\ [][HoneycombNext]_vars

\* Calls of pointInTriangle, no component being mounted.
PointInit ==
    /\ ptArgs \in PointInputs
    /\ ptResult = <<>>
    /\ WavyUnmounted /\ ParaletteUnmounted /\ InfillUnmounted /\ HoneycombIdle /\ ops = 0
    /\ activeId = "none" /\ hoveredId = NoHover
    /\ UnitsIdle

SpecPoint == PointInit /\ [][PointNext]_vars

\* The App in mm with the params of every project and the first project active,
\* the state of the components not modelled.
UnitsInit ==
    /\ unit = "mm"
    /\ paramsMap = InitialParamsMap
    /\ exported = NoExport
    /\ AppIdle
    /\ WavyUnmounted /\ ParaletteUnmounted /\ InfillUnmounted /\ HoneycombIdle /\ PointIdle
    /\ ops = 0 /\ activeId = "wavy-structure" /\ hoveredId = NoHover

SpecUnits == UnitsInit /\ [][UnitsNext]_vars

\* The application with any one of the three projects active; the pointer handlers
\* are explored together with the others for MaxSceneOps events.
SceneInit ==
    /\ WavyActive \/ ParaletteActive \/ InfillActive
    /\ ops = MaxOps - MaxSceneOps

SceneNext ==
    \/ WavyNext
    \/ WavyOnHover
    \/ WavyOnUnhover
    \/ ParaletteNext
    \/ ParaletteOnHover
    \/ ParaletteOnUnhover
    \/ InfillNext
    \/ InfillOnHover
    \/ InfillOnUnhover

SpecScene == SceneInit /\ [][SceneNext]_vars

(***************************************************************************)
(* Claims about WavyStructure                                              *)
(***************************************************************************)

FinCountOf(p) == MathRound(p.finCount)

\* ps is 'base', xfin-0..xfin-(n-1), zfin-0..zfin-(n-1), each with default overrides.
IsFreshPartList(ps, n) ==
    /\ Len(ps) = 2 * n + 1
    /\ ps[1].id = <<"base", 0>> /\ ps[1].type = "base"
    /\ \A i \in 0..(n - 1) :
          /\ ps[2 + i].id = <<"xfin", i>> /\ ps[2 + i].type = "x"
          /\ ps[2 + n + i].id = <<"zfin", i>> /\ ps[2 + n + i].type = "z"
    /\ \A j \in 1..Len(ps) :
          ps[j].overrides = [scaleX |-> 1000, scaleY |-> 1000, scaleZ |-> 1000,
                             bevelRadius |-> 0, bevelSegments |-> 1]

\* C1: whenever the rounded finCount changes to n, the part list becomes exactly
\* base, xfin-0..xfin-(n-1), zfin-0..zfin-(n-1) (2n+1 parts with default
\* overrides), whatever was deleted or overridden before, and the selection
\* becomes empty.
C1_FinCountChangeResetsParts ==
    [][ FinCountOf(wParams') # FinCountOf(wParams)
          => /\ IsFreshPartList(parts', FinCountOf(wParams'))
             /\ selectedIds' = {} ]_vars

\* A part deleted earlier is back in a fresh list: the reset followed a deletion.
C1_Witness ==
    /\ deleted \cap PartIds(parts) # {}
    /\ IsFreshPartList(parts, FinCountOf(wParams))
    /\ selectedIds = {}

\* C2: a change of any parameter other than finCount leaves the part list (ids,
\* order, overrides, earlier deletions) and the selection as they were.
C2_ShapeParamKeepsPartsAndSelection ==
    [][ (wParams' # wParams /\ wParams'.finCount = wParams.finCount)
          => (parts' = parts /\ selectedIds' = selectedIds) ]_vars

\* A shape parameter has been changed while a part is selected and the list is
\* no longer the fresh one (an override was set).
C2_Witness ==
    /\ \E k \in WavyShapeKeys : wParams[k] # WavyDefaultParams[k]
    /\ selectedIds # {}
    /\ ~IsFreshPartList(parts, FinCountOf(wParams))

\* C3 as claimed: a part removed by deleteSelected is absent ever after.
C3_DeletedNeverRecreated == deleted \cap PartIds(parts) = {}

\* C3 as amended: a part removed by deleteSelected stays absent through every
\* step that leaves the rounded finCount unchanged (shape parameters, selection
\* changes, override updates, further deletions); only a change of the rounded
\* finCount regenerates it.
C3_DeletedStaysAbsentUntilFinCountChanges ==
    [][ FinCountOf(wParams') = FinCountOf(wParams)
          => \A p \in deleted : p \notin PartIds(parts) => p \notin PartIds(parts') ]_vars

\* A part has been deleted, is still absent, and a parameter was changed.
C3_Witness ==
    /\ deleted # {}
    /\ deleted \cap PartIds(parts) = {}
    /\ wParams # [WavyDefaultParams EXCEPT !.finCount = wParams.finCount]

\* C4: all fins of one type carry the same bevelRadius and bevelSegments, the
\* ones the shared geometry of the type is built from.
C4_BevelSharedPerFinType ==
    \A i \in 1..Len(parts) :
        /\ parts[i].type = "x" =>
              /\ parts[i].overrides.bevelRadius = XBevelRadius
              /\ parts[i].overrides.bevelSegments = XBevelSegments
        /\ parts[i].type = "z" =>
              /\ parts[i].overrides.bevelRadius = ZBevelRadius
              /\ parts[i].overrides.bevelSegments = ZBevelSegments

\* A bevel update has reached every x fin (there are several) and no z fin.
C4_Witness ==
    /\ Len(FinsOfType("x")) >= 2
    /\ \A i \in 1..Len(parts) :
          /\ parts[i].type = "x" => parts[i].overrides.bevelRadius = 500
          /\ parts[i].type = "z" => parts[i].overrides.bevelRadius = 0

(***************************************************************************)
(* Claims about the Paralette frame                                        *)
(***************************************************************************)

\* C5: when a brush construction or a CSG evaluate step of the frame throws,
\* the frame geometry is the box W x H x depth, and no exception leaves the
\* geometry computation.
C5_FrameThrowGivesBox ==
    /\ ~pCrashed
    /\ pFrameFail # 0 =>
          pFrameGeo = [kind |-> "box", x |-> pParams.baseWidth,
                       y |-> pParams.triangleHeight, z |-> pParams.depth]

\* The grip-hole SUBTRACTION threw after a change of the base width.
C5_Witness ==
    /\ pFrameFail = 9
    /\ pParams.baseWidth = 10000
    /\ pFrameGeo = [kind |-> "box", x |-> 10000, y |-> pParams.triangleHeight,
                    z |-> pParams.depth]

\* The example of a degenerate combination: a grip wider than the frame.
GripWiderThanFrame(p) == p.gripDiameter > p.baseWidth

\* C6: a parameter combination with a degenerate boolean result (the grip
\* diameter above the frame width) gets the bounding-box fallback, and no
\* exception reaches the caller.
C6_DegenerateParamsGiveBox ==
    GripWiderThanFrame(pParams) => (pFrameGeo.kind = "box" /\ ~pCrashed)

\* C10: a failure of the frame construction leaves the part list, the
\* selection, every part's overrides, and the grip tube and foot geometries as
\* a render with a successful construction leaves them.
C10_FrameFailureIsIsolated ==
    [][ (pFrameFail' # 0 /\ FrameDeps(pParams') # FrameDeps(pParams))
          => /\ pParts' = pParts
             /\ pSelected' = pSelected
             /\ pGripTubeGeo' = IF GripTubeDeps(pParams') # GripTubeDeps(pParams)
                                  THEN GripTubeGeo(pParams') ELSE pGripTubeGeo
             /\ pFootGeo' = IF FootDeps(pParams') # FootDeps(pParams)
                              THEN FootGeo(pParams') ELSE pFootGeo ]_vars

\* The frame construction failed on changed parameters while a part is selected
\* and an override is set; grip tube and feet are those of the new parameters.
C10_Witness ==
    /\ pFrameFail # 0
    /\ FrameDeps(pParams) # FrameDeps(ParaletteDefaultParams)
    /\ pFrameGeo.kind = "box"
    /\ pSelected # {}
    /\ pParts # INITIAL_PARTS
    /\ pGripTubeGeo = GripTubeGeo(pParams)
    /\ pFootGeo = FootGeo(pParams)

(***************************************************************************)
(* TriangleInfill claims                                                   *)
(***************************************************************************)
FrameId == <<"frame", 0>>

\* C7: generateInfill never throws: a failure at any of its steps (building
\* the pattern slab, building the clipping triangle, constructing the
\* brushes, evaluating the INTERSECTION) gives a null return, and the frame
\* geometry is still produced and rendered.
C7_GenerateInfillNeverThrows ==
    /\ iInfill.outcome # "thrown"
    /\ (iFail # 0 =>
          /\ iInfill.outcome = "null"
          /\ (FrameId \notin iDeleted =>
                iFrameGeo.kind = "extrude" /\ "frame" \in InfillRenderedMeshes))

\* What holds of the steps inside the try block: a failure there is a null
\* return with both inputs disposed, and the frame stays rendered.
InfillTryFailureGivesNull ==
    (iFail \in InfillTrySteps) =>
        /\ iInfill = InfillReturn("null", NoGeometry, {"patternGeo", "triangleGeo"},
                                  {"patternGeo", "triangleGeo"})
        /\ ~iCrashed
        /\ (FrameId \notin iDeleted => "frame" \in InfillRenderedMeshes)

\* C8: with fillPattern None (0) generateInfill returns null whatever the
\* other parameters are and builds no pattern or clipping geometry; the infill
\* mesh is then not rendered while the frame part still is.
C8_NoneGivesNullAndFrameAlone ==
    (iBuild \in InfillBuilds /\ iParams.fillPattern = PATTERN.NONE) =>
        /\ (iInfill.outcome # "notRun" =>
              iInfill = InfillReturn("null", NoGeometry, {}, {}))
        /\ "infill" \notin InfillRenderedMeshes
        /\ (FrameId \notin iDeleted => "frame" \in InfillRenderedMeshes)

\* What holds of C8 in every build: a generateInfill call with pattern None
\* returns null and builds nothing, and no infill mesh is rendered.
InfillNoneReturnsNull ==
    (iBuild \in InfillBuilds /\ iParams.fillPattern = PATTERN.NONE) =>
        /\ (iInfill.outcome # "notRun" =>
              iInfill = InfillReturn("null", NoGeometry, {}, {}))
        /\ "infill" \notin InfillRenderedMeshes
        /\ (~DepsReadThrows(iBuild) /\ FrameId \notin iDeleted =>
              "frame" \in InfillRenderedMeshes)

(***************************************************************************)
(* createHoneycombSlab claims                                              *)
(***************************************************************************)
\* C9 as stated: holes are generated exactly when
\* holeR = cellSize - wallThickness / sqrt(3) is positive, that is when
\* cellSize > 0 and 3 * cellSize^2 > wallThickness^2.
C9_HolesIffHoleRPositive ==
    hSlab # NoGeometry =>
        ((hSlab.holes # {}) <=>
            (hArgs.cellSize > 0
               /\ 3 * hArgs.cellSize * hArgs.cellSize
                    > hArgs.wallThickness * hArgs.wallThickness))

\* C9 amended: holes are generated exactly when holeR exceeds 0.01, that is
\* when cellSize - 0.01 > 0 and 3 * (cellSize - 0.01)^2 > wallThickness^2; in
\* particular cellSize 6 gives no hole at wallThickness 12 and holes at 0.8.
C9_HolesIffHoleRAboveThreshold ==
    hSlab # NoGeometry =>
        /\ (hSlab.holes # {}) <=>
              (hArgs.cellSize - 10 > 0
                 /\ 3 * (hArgs.cellSize - 10) * (hArgs.cellSize - 10)
                      > hArgs.wallThickness * hArgs.wallThickness)
        /\ (hArgs.cellSize = 6000 /\ hArgs.wallThickness = 12000 => hSlab.holes = {})
        /\ (hArgs.cellSize = 6000 /\ hArgs.wallThickness = 800 => hSlab.holes # {})

\* A call with 0 < holeR <= 0.01 (cellSize 6, wallThickness 10.38, holeR about
\* 0.007) returned the slab without holes.
C9_Witness ==
    /\ hSlab # NoGeometry
    /\ hArgs.cellSize = 6000 /\ hArgs.wallThickness = 10380
    /\ hSlab.holes = {}

(***************************************************************************)
(* CSG pipelines: finalisation of the result                               *)
(***************************************************************************)
\* The final steps of the Paralette frame pipeline were applied to g:
\* finalGeo.groups.length = 0 and finalGeo.computeVertexNormals().
FrameFinalised(g) == g.groups = 0 /\ g.normalsComputed

\* The same of the clipped infill returned by generateInfill.
InfillFinalised(g) == g.groupsCleared /\ g.normalsComputed

\* C11: every geometry returned by a successful CSG pipeline (the Paralette
\* frame and the clipped infill) has its material groups cleared and its
\* vertex normals recomputed.
C11_CsgResultsFinalised ==
    /\ (pFrameGeo.kind = "csg" => FrameFinalised(pFrameGeo))
    /\ (iInfill.outcome = "geometry" => InfillFinalised(iInfill.geo))

\* What holds of C11: the Paralette frame is finalised, and the clipped infill
\* has its normals recomputed (its groups are left as evaluate produced them).
CsgNormalsRecomputed ==
    /\ (pFrameGeo.kind = "csg" => FrameFinalised(pFrameGeo))
    /\ (iInfill.outcome = "geometry" => iInfill.geo.normalsComputed)

(***************************************************************************)
(* Paralette: order of the CSG operations                                  *)
(***************************************************************************)
\* C12: the frame is built by the operations base + left leg, + right leg,
\* + apex cap, - grip hole in this order, the left operand of every operation
\* after the first being the previous result; the SUBTRACTION of the grip hole
\* is the last operation, no ADDITION follows it.
C12_FrameOperationsInOrder ==
    pFrameGeo.kind = "csg" =>
        LET o == pFrameGeo.operations
        IN /\ o = << <<"baseBrush", "ADDITION", "leftLegBrush">>,
                     <<"result", "ADDITION", "rightLegBrush">>,
                     <<"result", "ADDITION", "capBrush">>,
                     <<"result", "SUBTRACTION", "holeBrush">> >>
           /\ \A i \in 2..Len(o) : o[i][1] = "result"
           /\ o[Len(o)][2] = "SUBTRACTION"
           /\ \A i \in 1..Len(o) : \A j \in (i + 1)..Len(o) :
                 ~(o[i][2] = "SUBTRACTION" /\ o[j][2] = "ADDITION")

\* A frame was built by the whole pipeline after a parameter change.
C12_Witness ==
    /\ pFrameGeo.kind = "csg"
    /\ Len(pFrameGeo.operations) = 4
    /\ pParams # ParaletteDefaultParams

(***************************************************************************)
(* Claims about memoized geometry                                          *)
(***************************************************************************)

\* The part lists a and b hold the same parts and differ at most in the scale
\* overrides of their parts.
ScaleOnlyChange(a, b) ==
    /\ Len(a) = Len(b)
    /\ \A i \in 1..Len(a) :
         /\ a[i].id = b[i].id /\ a[i].type = b[i].type
         /\ \A f \in BevelFields : a[i].overrides[f] = b[i].overrides[f]

\* A step that changes only the selection, the hovered part or scale overrides.
InteractionOnlyStep ==
    /\ wParams' = wParams /\ ScaleOnlyChange(parts, parts')
    /\ pParams' = pParams /\ ScaleOnlyChange(pParts, pParts')
    /\ iParams' = iParams /\ ScaleOnlyChange(iParts, iParts')

\* A memo whose callback does not run keeps the geometry object it held.
MemoKeepsGeometry ==
    /\ (~pCrashed' /\ "frameGeo" \notin ParaletteRebuilt) => pFrameGeo' = pFrameGeo
    /\ (~pCrashed' /\ "gripTubeGeo" \notin ParaletteRebuilt) => pGripTubeGeo' = pGripTubeGeo
    /\ (~pCrashed' /\ "footGeo" \notin ParaletteRebuilt) => pFootGeo' = pFootGeo
    /\ (~iCrashed' /\ "frameGeo" \notin InfillRebuilt) => iFrameGeo' = iFrameGeo
    /\ (~iCrashed' /\ "infillGeo" \notin InfillRebuilt) => iInfill' = iInfill

\* C13: a geometry memo runs its callback only when its dependency array changed,
\* and a step that changes only the selection, the hovered part or scale overrides
\* runs no geometry callback: every fin, frame, infill, grip and foot geometry is
\* the object of the previous render.
C13_GeometryMemoized ==
    [][ /\ MemoKeepsGeometry
        /\ InteractionOnlyStep =>
             /\ WavyRebuilt = {} /\ ParaletteRebuilt = {} /\ InfillRebuilt = {}
             /\ UNCHANGED <<pFrameGeo, pGripTubeGeo, pFootGeo, iFrameGeo, iInfill>> ]_vars

\* A part is hovered and carries a changed scale override while the CSG frame exists.
C13_Witness ==
    /\ activeId = "paralette" /\ hoveredId # NoHover
    /\ \E i \in 1..Len(pParts) : pParts[i].overrides.scaleX = 2000
    /\ pFrameGeo.kind = "csg"

(***************************************************************************)
(* Claims about geometry lifetime                                          *)
(***************************************************************************)

\* The steps of a frameGeo run that complete when step failAt throws.
FrameCompleted(steps, failAt) ==
    { i \in 1..Len(steps) : failAt = 0 \/ i < failAt }

\* The BufferGeometry objects a frameGeo run constructs: one per brush, one per
\* evaluate result, and the BoxGeometry of the catch block.
FrameCreated(steps, failAt) ==
    Cardinality({ i \in FrameCompleted(steps, failAt) : steps[i].do \in {"brush", "evaluate"} })
      + (IF failAt # 0 THEN 1 ELSE 0)

\* The geometries a frameGeo run disposes: one per dispose statement it reaches.
FrameDisposed(steps, failAt) ==
    Cardinality({ i \in FrameCompleted(steps, failAt) : steps[i].do = "dispose" })

\* The geometries the last frameGeo run left undisposed besides the one it returned.
FrameTemporariesLive ==
    FrameCreated(FrameSteps(pParams), pFrameFail)
      - FrameDisposed(FrameSteps(pParams), pFrameFail) - 1

\* C14: every temporary CSG operand is released: the last construction of the
\* Paralette frame left no geometry undisposed besides the one it returned.
C14_TemporariesReleased ==
    (activeId = "paralette" /\ ~pCrashed) => FrameTemporariesLive = 0

(***************************************************************************)
(* Claims about the winding of the planar profiles                         *)
(***************************************************************************)

\* Numbers a + b * sqrt(3) as pairs <<a, b>>.
R3(a) == <<a, 0>>
R3Sub(x, y) == <<x[1] - y[1], x[2] - y[2]>>
R3Add(x, y) == <<x[1] + y[1], x[2] + y[2]>>
R3Mul(x, y) == <<x[1] * y[1] + 3 * x[2] * y[2], x[1] * y[2] + x[2] * y[1]>>

RECURSIVE ShoelaceFrom(_, _)
\* The sum of x[i] * y[i+1] - x[i+1] * y[i] over the edges i >= k of the closed path.
ShoelaceFrom(path, k) ==
    IF k > Len(path) THEN R3(0)
    ELSE LET p == path[k]
             q == path[IF k = Len(path) THEN 1 ELSE k + 1]
         IN R3Add(R3Sub(R3Mul(p[1], q[2]), R3Mul(q[1], p[2])), ShoelaceFrom(path, k + 1))

\* The sign of the signed area of a closed path (closePath joins the last point
\* to the first): 1 counter-clockwise, -1 clockwise.
Winding(path) ==
    CHOOSE s \in { SignSqrt3(a[1], a[2]) : a \in {ShoelaceFrom(path, 1)} } : TRUE

\* createOuterFrame(hw, H, T): the points of the shape and of its hole, in tenths.
CreateOuterFrame(hw, H, T) ==
    LET h == Tenths(hw)
        t == ExactDiv(Tenths(T), 2)
        top == Tenths(H)
    IN [outer |-> << <<R3(-h - t), R3(-t)>>, <<R3(h + t), R3(-t)>>, <<R3(0), R3(top + t)>> >>,
        hole |-> << <<R3(-h + t), R3(t)>>, <<R3(0), R3(top - t)>>, <<R3(h - t), R3(t)>> >>]

\* The rectangle of createHoneycombSlab: moveTo(minX, minY), lineTo(maxX, minY),
\* lineTo(maxX, maxY), lineTo(minX, maxY).
SlabOuterPath(outline) ==
    << <<R3(outline[1]), R3(outline[2])>>, <<R3(outline[3]), R3(outline[2])>>,
       <<R3(outline[3]), R3(outline[4])>>, <<R3(outline[1]), R3(outline[4])>> >>

\* The points of a hexagon hole for i = 0..6, angle = PI / 6 + i * PI / 3, as
\* (2 * cos(angle), 2 * sin(angle)): the hole is these points scaled by
\* holeR / 2 > 0 and moved to the cell centre, which keeps the sign of its area.
HexagonHolePath ==
    << <<<<0, 1>>, R3(1)>>, <<R3(0), R3(2)>>, <<<<0, -1>>, R3(1)>>,
       <<<<0, -1>>, R3(-1)>>, <<R3(0), R3(-2)>>, <<<<0, 1>>, R3(-1)>>,
       <<<<0, 1>>, R3(1)>> >>

\* The profiles follow the convention c: outer boundaries wind c, holes -c.
ProfilesFollow(c) ==
    /\ Winding(CreateOuterFrame(hArgs.hw, hArgs.H, hArgs.T).outer) = c
    /\ Winding(CreateOuterFrame(hArgs.hw, hArgs.H, hArgs.T).hole) = -c
    /\ Winding(SlabOuterPath(hSlab.outline)) = c
    /\ Winding(HexagonHolePath) = -c

\* C15: the triangular frame profile and the honeycomb slab profile have their
\* outer boundary counter-clockwise and every hole clockwise by the sign of the
\* signed area, or all follow the opposite convention.
C15_ProfilesWoundUniformly ==
    (hSlab # NoGeometry /\ hSlab.holes # {}) => (ProfilesFollow(1) \/ ProfilesFollow(-1))

\* The frame profile alone follows the convention: outer counter-clockwise,
\* hole clockwise.
FrameProfileWound ==
    /\ Winding(CreateOuterFrame(hArgs.hw, hArgs.H, hArgs.T).outer) = 1
    /\ Winding(CreateOuterFrame(hArgs.hw, hArgs.H, hArgs.T).hole) = -1

\* The honeycomb slab's rectangle and its hexagon holes wind the same way.
SlabHolesWoundAsOuter ==
    (hSlab # NoGeometry /\ hSlab.holes # {}) =>
        /\ Winding(SlabOuterPath(hSlab.outline)) = 1
        /\ Winding(HexagonHolePath) = 1

(***************************************************************************)
(* Claims about count-typed parameters                                     *)
(***************************************************************************)

\* The params with every count-typed parameter of TriangleInfill rounded.
InfillCountsRounded(p) ==
    [p EXCEPT !.fillPattern = 1000 * MathRound(@), !.patternOrigin = 1000 * MathRound(@)]

\* infillGeo is the result of generateInfill on the params as they are.
InfillUsesRawCounts ==
    (activeId = "triangle-infill" /\ ~iCrashed) => iInfill = InfillGeo(iParams, iFail)

\* C16: fillPattern and patternOrigin are rounded to the nearest integer before
\* use: infillGeo is the result of generateInfill on the rounded values.
C16_CountParamsRounded ==
    (activeId = "triangle-infill" /\ ~iCrashed) =>
        iInfill = InfillGeo(InfillCountsRounded(iParams), iFail)

(***************************************************************************)
(* Claims about pointInTriangle                                            *)
(***************************************************************************)

\* Twice the signed area of the triangle a b c.
Det(a, b, c) == (b[1] - a[1]) * (c[2] - a[2]) - (c[1] - a[1]) * (b[2] - a[2])

\* p is a convex combination of a, b and c: weights wa, wb, wc >= 0 of sum
\* |Det| with |Det| * p = wa * a + wb * b + wc * c (the barycentric coordinates
\* of a grid point are whole multiples of 1 / |Det|).
InClosedTriangle(p, a, b, c) ==
    \E wa \in 0..Abs(Det(a, b, c)) : \E wb \in 0..(Abs(Det(a, b, c)) - wa) :
        \E wc \in {Abs(Det(a, b, c)) - wa - wb} :
            /\ Abs(Det(a, b, c)) * p[1] = wa * a[1] + wb * b[1] + wc * c[1]
            /\ Abs(Det(a, b, c)) * p[2] = wa * a[2] + wb * b[2] + wc * c[2]

\* p is a convex combination of a, b and c with all three weights positive.
InOpenTriangle(p, a, b, c) ==
    \E wa \in 1..Abs(Det(a, b, c)) : \E wb \in 1..(Abs(Det(a, b, c)) - wa) :
        \E wc \in {Abs(Det(a, b, c)) - wa - wb} :
            /\ wc > 0
            /\ Abs(Det(a, b, c)) * p[1] = wa * a[1] + wb * b[1] + wc * c[1]
            /\ Abs(Det(a, b, c)) * p[2] = wa * a[2] + wb * b[2] + wc * c[2]

PointCalled == ptArgs # <<>> /\ ptResult # <<>>

\* C17: for a triangle v0 v1 v2 of either winding, pointInTriangle returns true
\* exactly when the point is strictly inside or on the boundary of the triangle,
\* and false for every point outside.
C17_PointInTriangleIsClosedTriangle ==
    (PointCalled /\ Det(ptArgs.v0, ptArgs.v1, ptArgs.v2) # 0) =>
        (ptResult[1] <=> InClosedTriangle(ptArgs.p, ptArgs.v0, ptArgs.v1, ptArgs.v2))

\* A clockwise triangle with the point strictly inside, accepted.
C17_Witness ==
    /\ PointCalled
    /\ Det(ptArgs.v0, ptArgs.v1, ptArgs.v2) < 0
    /\ InOpenTriangle(ptArgs.p, ptArgs.v0, ptArgs.v1, ptArgs.v2)
    /\ ptResult[1]

PointCasesReached(sign) ==
    /\ PointCalled /\ SignInt(Det(ptArgs.v0, ptArgs.v1, ptArgs.v2)) = sign

\* A point of an edge, not a vertex, of a counter-clockwise triangle, accepted.
PointBoundaryCase ==
    /\ PointCasesReached(1)
    /\ InClosedTriangle(ptArgs.p, ptArgs.v0, ptArgs.v1, ptArgs.v2)
    /\ ~InOpenTriangle(ptArgs.p, ptArgs.v0, ptArgs.v1, ptArgs.v2)
    /\ ptArgs.p \notin {ptArgs.v0, ptArgs.v1, ptArgs.v2}
    /\ ptResult[1]

\* A point outside a clockwise triangle, rejected.
PointOutsideCase ==
    /\ PointCasesReached(-1)
    /\ ~InClosedTriangle(ptArgs.p, ptArgs.v0, ptArgs.v1, ptArgs.v2)
    /\ ~ptResult[1]

\* With collinear vertices every point of their line is accepted, the ones
\* beyond the vertices included.
PointCollinearCase ==
    /\ PointCalled
    /\ ptArgs.v0 = <<0, 0>> /\ ptArgs.v1 = <<1, 0>> /\ ptArgs.v2 = <<1, 0>>
    /\ ptArgs.p = <<2, 0>> /\ ptResult[1]

(***************************************************************************)
(* Claims about the rows of the honeycomb grid                             *)
(***************************************************************************)

\* The y of the anchor edge, in tenths: T / 2 from the bottom, H - T / 2 from the top.
AnchorEdgeY ==
    IF hArgs.fromTop
      THEN Tenths(hArgs.H) - ExactDiv(Tenths(hArgs.T), 2)
      ELSE ExactDiv(Tenths(hArgs.T), 2)

\* Half the horizontal spacing sqrt(3) * cellSize, in tenths, as a pair.
HalfSpacingX == <<0, ExactDiv(Tenths(hArgs.cellSize), 2)>>

\* The slab of the call has a grid of rows.
SlabHasRows == hSlab # NoGeometry /\ DOMAIN hSlab.rows # {}

\* C18: for every row index of the grid, negative indices included, the row
\* parity is 0 or 1 and equals the index modulo 2; odd rows are shifted by half
\* the horizontal spacing and even rows are not, so vertically adjacent rows
\* have opposite offsets; row 0 lies on the anchor edge.
C18_RowsAlternate ==
    SlabHasRows =>
        /\ \A r \in DOMAIN hSlab.rows :
             /\ hSlab.rows[r].rowParity \in {0, 1}
             /\ hSlab.rows[r].rowParity = r % 2
             /\ hSlab.rows[r].offset = IF r % 2 = 1 THEN HalfSpacingX ELSE <<0, 0>>
             /\ (r + 1 \in DOMAIN hSlab.rows =>
                   hSlab.rows[r + 1].offset # hSlab.rows[r].offset)
        /\ 0 \in DOMAIN hSlab.rows
        /\ hSlab.rows[0].cy = AnchorEdgeY

\* A grid anchored at the apex with an odd row below the anchor row.
C18_Witness ==
    /\ SlabHasRows /\ hArgs.fromTop
    /\ -1 \in DOMAIN hSlab.rows /\ -3 \in DOMAIN hSlab.rows
    /\ hSlab.rows[-1].rowParity = 1

(***************************************************************************)
(* Claims about the working unit and the export                            *)
(***************************************************************************)

\* The step is a switch of the working unit.
UnitSwitched == unit' # unit

\* A scene length v of the working unit u in thousandths of a mm.
ExtentMm(v, u) == ExactDiv(v * MM_TO[u][2], MM_TO[u][1])

\* A unit switch divides every length-typed parameter of every project by 10
\* (mm to cm) or multiplies it by 10 (cm to mm), and leaves the counts alone.
LengthsConverted ==
    \A id \in ProjectIds : \A key \in DOMAIN paramsMap[id] :
        IF UnitTypeOf(key) = "length"
          THEN /\ (unit = "mm" => 10 * paramsMap'[id][key] = paramsMap[id][key])
               /\ (unit = "cm" => paramsMap'[id][key] = 10 * paramsMap[id][key])
          ELSE paramsMap'[id][key] = paramsMap[id][key]

UnitSwitchConvertsLengths == [][UnitSwitched => LengthsConverted]_vars

\* The boxes of the WavyStructure base plate have the same extents in mm before
\* and after the step.
BasePlateKeepsSize ==
    \A b \in 1..2 : \A axis \in 1..3 :
        ExtentMm(BasePlateBoxes(paramsMap'["wavy-structure"])[b][axis], unit')
          = ExtentMm(BasePlateBoxes(paramsMap["wavy-structure"])[b][axis], unit)

\* C19: a switch of the working unit converts every length-typed parameter of
\* every project by a factor of 10 and leaves every rendered solid at the same
\* physical size: the extents of the base plate boxes, in mm, are the same
\* before and after the switch.
C19_UnitSwitchKeepsPhysicalSize ==
    [][UnitSwitched => (LengthsConverted /\ BasePlateKeepsSize)]_vars

\* A switch has been made and the params are the converted ones.
UnitSwitchDone ==
    /\ unit = "cm" /\ paramsMap # <<>>
    /\ paramsMap["wavy-structure"].baseWidth = 3500

\* The factors of the export: STL 1 in mm and 10 in cm, GLB 0.001 in mm and
\* 0.01 in cm.
ExportFactorsAsStated ==
    /\ StlScaleFactor("mm") = <<1, 1>> /\ StlScaleFactor("cm") = <<10, 1>>
    /\ GlbScaleFactor("mm") = <<1, 1000>> /\ GlbScaleFactor("cm") = <<10, 1000>>

\* The fractions x and y are equal.
RatEq(x, y) == x[1] * y[2] = y[1] * x[2]

ParamsChanged == paramsMap' # paramsMap /\ unit' = unit

\* C21: a parameter change writes only the active project's parameter map and
\* leaves every other project's parameters unchanged; a project switch changes no
\* parameter, so switching away and back shows the earlier values of each project.
C21_ProjectsKeepOwnParams ==
    [][ /\ ParamsChanged =>
             /\ activeId' = activeId
             /\ \A id \in ProjectIds \ {activeId} : paramsMap'[id] = paramsMap[id]
        /\ activeId' # activeId => paramsMap' = paramsMap ]_vars

\* Back on the first project after a change in it and a change in another one:
\* both changed values are there.
C21_Witness ==
    /\ paramsMap # <<>> /\ activeId = "wavy-structure" /\ unit = "mm"
    /\ paramsMap["wavy-structure"].baseWidth = 36000
    /\ paramsMap["paralette"].depth = 9000
    /\ paramsMap["triangle-infill"] = InitialParamsMap["triangle-infill"]

\* ---------------------------------------------------------------------------
\* Numbers at the precision of the program: an ECMAScript Number is an IEEE 754
\* binary64.  A positive Number is <<e, m>>, of value m * 2^e, m the 53-bit
\* significand held as four limbs of 14 bits, the least significant first.
\* The params are never negative.
\* ---------------------------------------------------------------------------
LimbBase == 2^14

Pow2 == [i \in 0..14 |-> 2^i]

Zero64 == <<0, <<0, 0, 0, 0>> >>

\* Bit i of the natural number held in the limbs P.
Bit(P, i) ==
    IF i < 0 \/ i >= 14 * Len(P) THEN 0
    ELSE (P[(i \div 14) + 1] \div Pow2[i % 14]) % 2

\* The value of the width bits of P from bit from on.
RECURSIVE BitsValue(_, _, _)
BitsValue(P, from, width) ==
    IF width = 0 THEN 0
    ELSE CHOOSE out \in { Bit(P, from) + 2 * BitsValue(P, f, w) :
                          f \in {from + 1}, w \in {width - 1} } : TRUE

\* The 53 bits of P from bit s on, as a significand.
Shifted(P, s) ==
    << BitsValue(P, s, 14), BitsValue(P, s + 14, 14),
       BitsValue(P, s + 28, 14), BitsValue(P, s + 42, 11) >>

AnyBitBelow(P, s) == \E i \in 0..(s - 1) : Bit(P, i) = 1

\* The limbs of the columns cols from column i on, c the carry (or borrow)
\* into column i.
RECURSIVE CarriedFrom(_, _, _)
CarriedFrom(cols, i, c) ==
    IF i > Len(cols) THEN <<>>
    ELSE CHOOSE out \in { <<t % LimbBase>> \o CarriedFrom(cols, j, t \div LimbBase) :
                          t \in {cols[i] + c}, j \in {i + 1} } : TRUE

\* The limbs of the columns cols, the carries (or borrows) propagated.
Carried(cols) == CHOOSE out \in { CarriedFrom(cs, 1, 0) : cs \in {cols} } : TRUE

MulTerm(a, b, i, k) ==
    IF i >= 1 /\ i <= 4 /\ k + 1 - i >= 1 /\ k + 1 - i <= 4 THEN a[i] * b[k + 1 - i] ELSE 0

\* The exact product of two significands, eight limbs.
MulLimbs(a, b) ==
    Carried([k \in 1..8 |-> MulTerm(a, b, 1, k) + MulTerm(a, b, 2, k)
                              + MulTerm(a, b, 3, k) + MulTerm(a, b, 4, k)])

GeqLimbs(a, b) ==
    \/ a[4] > b[4]
    \/ a[4] = b[4] /\ a[3] > b[3]
    \/ a[4] = b[4] /\ a[3] = b[3] /\ a[2] > b[2]
    \/ a[4] = b[4] /\ a[3] = b[3] /\ a[2] = b[2] /\ a[1] >= b[1]

SubLimbs(a, b) == Carried([i \in 1..4 |-> a[i] - b[i]])

DoubleLimbs(a) == Carried([i \in 1..4 |-> 2 * a[i]])

\* Round to nearest, ties to even: the significand q of exponent e, the first
\* bit dropped (guard) and whether any later bit dropped was set (sticky).
RoundNearestEven(q, e, guard, sticky) ==
    IF ~(guard = 1 /\ (sticky \/ q[1] % 2 = 1)) THEN <<e, q>>
    ELSE CHOOSE out \in { IF r[4] = 2^11 THEN <<e + 1, <<0, 0, 0, 2^10>> >> ELSE <<e, r>> :
                          r \in {Carried(<<q[1] + 1, q[2], q[3], q[4]>>)} } : TRUE

\* x * y of two Numbers.
FMul(x, y) ==
    IF x = Zero64 \/ y = Zero64 THEN Zero64
    ELSE CHOOSE out \in
           { CHOOSE r \in
               { CHOOSE rounded \in
                   { RoundNearestEven(q, e, Bit(P, s - 1), AnyBitBelow(P, s - 1)) :
                     q \in {Shifted(P, s)}, e \in {x[1] + y[1] + s} } : TRUE :
                 s \in {IF Bit(P, 105) = 1 THEN 53 ELSE 52} } : TRUE :
             P \in {MulLimbs(x[2], y[2])} } : TRUE

\* The long division of r * 2^n by d, r < d: <<quotient, remainder>>, the
\* quotient so far being q.
RECURSIVE DivLoop(_, _, _, _)
DivLoop(r, d, q, n) ==
    IF n = 0 THEN <<q, r>>
    ELSE CHOOSE out \in
           { CHOOSE next \in
               { DivLoop(r3, d, q3, m) :
                 r3 \in {IF GeqLimbs(r2, d) THEN SubLimbs(r2, d) ELSE r2},
                 q3 \in {IF GeqLimbs(r2, d) THEN <<q2[1] + 1, q2[2], q2[3], q2[4]>> ELSE q2},
                 m \in {n - 1} } : TRUE :
             r2 \in {DoubleLimbs(r)}, q2 \in {DoubleLimbs(q)} } : TRUE

\* DivLoop in three runs, the first two of 18 steps.
LongDivision(r, d, q, n) ==
    CHOOSE out \in
      { CHOOSE rest \in
          { DivLoop(b[2], d, b[1], n - 36) : b \in {DivLoop(a[2], d, a[1], 18)} } : TRUE :
        a \in {DivLoop(r, d, q, 18)} } : TRUE

\* x / y of two Numbers, y not zero.
FDiv(x, y) ==
    IF x = Zero64 THEN Zero64
    ELSE CHOOSE out \in
           { CHOOSE rounded \in
               { RoundNearestEven(q, e, Bit(QR[1], 0), QR[2] # <<0, 0, 0, 0>>) :
                 q \in {Shifted(QR[1], 1)}, e \in {x[1] - y[1] + 1 - QR[3]} } : TRUE :
             QR \in { IF GeqLimbs(x[2], y[2])
                        THEN LongDivision(SubLimbs(x[2], y[2]), y[2], <<1, 0, 0, 0>>, 53) \o <<53>>
                        ELSE LongDivision(x[2], y[2], <<0, 0, 0, 0>>, 54) \o <<54>> } } : TRUE

\* The Number of a natural number below 2^30.
FromInt(n) ==
    IF n = 0 THEN Zero64
    ELSE CHOOSE out \in
           { <<p - 52, Shifted(<<n % LimbBase, (n \div LimbBase) % LimbBase,
                                 n \div (LimbBase * LimbBase), 0>>, p - 52)>> :
             p \in { k \in 0..29 : n \div 2^k = 1 } } : TRUE

\* The Number a decimal literal denotes, the literal given in thousandths:
\* the Number nearest to n / 1000.
Literal(n) == FDiv(FromInt(n), FromInt(1000))

\* x <= y of two Numbers.
FLeq(x, y) ==
    IF x = Zero64 THEN TRUE
    ELSE IF y = Zero64 THEN FALSE
    ELSE x[1] < y[1] \/ (x[1] = y[1] /\ GeqLimbs(y[2], x[2]))

\* ---------------------------------------------------------------------------
\* The parameter panel and the unit switch at the precision of the program:
\* paramsMap holds Numbers, every project its defaultParams.
\* ---------------------------------------------------------------------------

\* min, max and step of the paramDefs of every project, in thousandths.
ParamDefs ==
    [id \in ProjectIds |->
        IF id = "wavy-structure" THEN
          [baseWidth |-> [min |-> 10000, max |-> 80000, step |-> 1000],
           baseDepth |-> [min |-> 10000, max |-> 80000, step |-> 1000],
           baseHeight |-> [min |-> 500, max |-> 5000, step |-> 100],
           finCount |-> [min |-> 2000, max |-> 12000, step |-> 1000],
           finThickness |-> [min |-> 200, max |-> 3000, step |-> 100],
           waveAvg |-> [min |-> 5000, max |-> 30000, step |-> 500],
           waveA |-> [min |-> 0, max |-> 10000, step |-> 100],
           waveB |-> [min |-> 0, max |-> 10000, step |-> 100]]
        ELSE IF id = "paralette" THEN
          [baseWidth |-> [min |-> 10000, max |-> 100000, step |-> 1000],
           triangleHeight |-> [min |-> 20000, max |-> 120000, step |-> 1000],
           barThickness |-> [min |-> 2000, max |-> 15000, step |-> 500],
           depth |-> [min |-> 3000, max |-> 40000, step |-> 1000],
           gripDiameter |-> [min |-> 2000, max |-> 20000, step |-> 500],
           gripExtension |-> [min |-> 0, max |-> 20000, step |-> 500],
           footRadius |-> [min |-> 1000, max |-> 15000, step |-> 500],
           footHeight |-> [min |-> 1000, max |-> 8000, step |-> 500]]
        ELSE
          [baseWidth |-> [min |-> 20000, max |-> 100000, step |-> 1000],
           triangleHeight |-> [min |-> 20000, max |-> 120000, step |-> 1000],
           wallThickness |-> [min |-> 1000, max |-> 10000, step |-> 500],
           depth |-> [min |-> 2000, max |-> 30000, step |-> 1000],
           fillPattern |-> [min |-> 0, max |-> 2000, step |-> 1000],
           patternOrigin |-> [min |-> 0, max |-> 1000, step |-> 1000],
           cellSize |-> [min |-> 3000, max |-> 20000, step |-> 500],
           infillWallThickness |-> [min |-> 200, max |-> 3000, step |-> 100]]]

\* The options of the paramDefs that have some: the opt.value, in thousandths.
ParamOptions ==
    [fillPattern |-> {0, 1000, 2000}, patternOrigin |-> {0, 1000}]

\* The opt.value as Numbers.
ParamOptions64 == [key \in DOMAIN ParamOptions |-> { Literal(v) : v \in ParamOptions[key] }]

\* The defaultParams of triangle-infill, in thousandths.
InfillDefaultParams ==
    [baseWidth |-> 50000, triangleHeight |-> 60000, wallThickness |-> 3000,
     depth |-> 10000, fillPattern |-> 1000, patternOrigin |-> 0,
     cellSize |-> 6000, infillWallThickness |-> 800]

\* The paramsMap of the first render, as Numbers.
InitialParamsMap64 ==
    [id \in ProjectIds |->
        [key \in DOMAIN ParamDefs[id] |->
            Literal((IF id = "wavy-structure" THEN WavyDefaultParams
                     ELSE IF id = "paralette" THEN ParaletteDefaultParams
                     ELSE InfillDefaultParams)[key])]]

\* MM_TO as Numbers: { mm: 1, cm: 0.1 }
MM_TO64 == [mm |-> Literal(1000), cm |-> Literal(100)]

\* convertValue: value / MM_TO[from] * MM_TO[to], each operation rounded.
ConvertValue64(value, unitType, from, to) ==
    IF unitType # "length" \/ from = to THEN value
    ELSE FMul(FDiv(value, MM_TO64[from]), MM_TO64[to])

\* convertParams(params, paramDefs, from, to)
ConvertParams64(params, from, to) ==
    IF from = to THEN params
    ELSE [key \in DOMAIN params |->
            IF UnitTypeOf(key) = "length"
              THEN ConvertValue64(params[key], "length", from, to)
              ELSE params[key]]

\* scaleParamDef(def, unit) of every paramDef and unit: min and max, as Numbers.
ScaledParamDefs64 ==
    [u \in UnitSystems |-> [id \in ProjectIds |-> [key \in DOMAIN ParamDefs[id] |->
        IF UnitTypeOf(key) # "length" \/ u = "mm"
          THEN [min |-> Literal(ParamDefs[id][key].min),
                max |-> Literal(ParamDefs[id][key].max)]
          ELSE [min |-> FMul(Literal(ParamDefs[id][key].min), MM_TO64[u]),
                max |-> FMul(Literal(ParamDefs[id][key].max), MM_TO64[u])]]]]

ScaleParamDef64(id, key, u) == ScaledParamDefs64[u][id][key]

\* The sliders the model moves.
RangeSliderKeys ==
    [id \in ProjectIds |->
        IF id = "wavy-structure" THEN {"finThickness", "waveA"}
        ELSE IF id = "paralette" THEN {"depth"}
        ELSE {"infillWallThickness", "fillPattern"}]

\* The values a control of the panel hands to onChange: the opt.value of an
\* option button, or a position of the Slider between min and max of the scaled
\* paramDef (the model moves it to the two ends).
PanelValues(id, key, u) ==
    IF key \in DOMAIN ParamOptions
      THEN ParamOptions64[key]
      ELSE { ScaleParamDef64(id, key, u).min, ScaleParamDef64(id, key, u).max }

\* onChange({ ...params, [def.key]: v }) from a control of the active project.
RangeOnParamsChange ==
    /\ ops < MaxOps
    /\ \E key \in RangeSliderKeys[activeId] :
         \E v \in PanelValues(activeId, key, unit) :
            /\ paramsMap[activeId][key] # v
            /\ paramsMap' = ParamsMapSet(paramsMap, activeId,
                                         [paramsMap[activeId] EXCEPT ![key] = v])
    /\ ops' = ops + 1
    /\ UNCHANGED <<unit, exported, activeId, notUnitVars>>

\* onUnitChange(newUnit) from the unit selector.
RangeOnUnitChange ==
    /\ ops < MaxOps
    /\ \E newUnit \in UnitSystems \ {unit} :
         /\ paramsMap' = [id \in DOMAIN paramsMap |->
                            ConvertParams64(paramsMap[id], unit, newUnit)]
         /\ unit' = newUnit
    /\ ops' = ops + 1
    /\ UNCHANGED <<exported, activeId, notUnitVars>>

RangeNext == RangeOnParamsChange \/ UnitsSwitchProject \/ RangeOnUnitChange

RangeInit ==
    /\ unit = "mm"
    /\ paramsMap = InitialParamsMap64
    /\ exported = NoExport
    /\ AppIdle
    /\ WavyUnmounted /\ ParaletteUnmounted /\ InfillUnmounted /\ HoneycombIdle /\ PointIdle
    /\ ops = 0 /\ activeId = "wavy-structure" /\ hoveredId = NoHover

SpecRange == RangeInit /\ [][RangeNext]_vars

(***************************************************************************)
(* Claim about the range of the parameters                                 *)
(***************************************************************************)

\* The param key of project id is within min and max of its scaled paramDef.
WithinScaledRange(id, key) ==
    /\ FLeq(ScaleParamDef64(id, key, unit).min, paramsMap[id][key])
    /\ FLeq(paramsMap[id][key], ScaleParamDef64(id, key, unit).max)

\* C22: in every reachable state, every parameter of every project, active or
\* not, that has a paramDef holds a value between the min and the max of that
\* paramDef as scaled for the working unit.
C22_ParamsWithinScaledRange ==
    \A id \in ProjectIds : \A key \in DOMAIN ParamDefs[id] : WithinScaledRange(id, key)

\* What a control of the panel hands over is within the scaled range, and so is
\* every param after a switch from mm to cm.
PanelAndMmToCmKeepRange ==
    [][(paramsMap' # paramsMap /\ unit' # "mm") =>
          \A id \in ProjectIds : \A key \in DOMAIN ParamDefs[id] :
             WithinScaledRange(id, key)'  \/ ~WithinScaledRange(id, key)]_vars

(***************************************************************************)
(* Claims about the selection and the part list of usePartInteraction      *)
(***************************************************************************)

\* The positions of the list ps whose part is not in sel, in ascending order.
RECURSIVE KeptPositions(_, _, _)
KeptPositions(ps, sel, i) ==
    IF i > Len(ps) THEN <<>>
    ELSE (IF ps[i].id \in sel THEN <<>> ELSE <<i>>) \o KeptPositions(ps, sel, i + 1)

\* after is before without the parts of sel: the other parts, each with its
\* overrides, in the order they had.
RemovedExactly(before, after, sel) ==
    /\ Len(after) = Len(KeptPositions(before, sel, 1))
    /\ \A k \in 1..Len(after) : after[k] = before[KeptPositions(before, sel, 1)[k]]
    /\ PartIds(after) = PartIds(before) \ sel

\* C23: deleteSelected with a non-empty selection removes exactly the selected
\* parts from the part list, keeps every other part with its overrides and in
\* its order, and leaves the selection empty; with an empty selection it
\* changes neither the part list nor the selection.
C23_DeleteRemovesExactlySelected ==
    [][ParaletteDeleteSelected =>
          IF pSelected # {}
            THEN RemovedExactly(pParts, pParts', pSelected) /\ pSelected' = {}
            ELSE pParts' = pParts /\ pSelected' = pSelected]_vars

\* A part of the middle of the list has been deleted and a part behind it
\* carries an override set before the deletion.
C23_Witness ==
    /\ activeId = "paralette"
    /\ PartIds(pParts) = ParaletteIds \ {<<"grip", 0>>}
    /\ pSelected = {}
    /\ \E i \in 1..Len(pParts) :
         pParts[i].id = <<"foot-left", 0>> /\ pParts[i].overrides # DEFAULT_OVERRIDES

C26_SelectionWithinPartList ==
    /\ selectedIds \subseteq PartIds(parts)
    /\ ~pCrashed => pSelected \subseteq PartIds(pParts)
    /\ ~iCrashed => iSelected \subseteq PartIds(iParts)

\* A part is selected after another one was deleted.
C26_Witness == deleted # {} /\ selectedIds # {} /\ Len(parts) > 0

\* C27: a plain click on part id makes the selection exactly {id}, except that
\* it empties a selection that was exactly {id}; a Ctrl/Meta click changes the
\* membership of id and of no other part; a second Ctrl/Meta click on the same
\* part gives back the selection before the first.
C27_OnSelectPlainAndToggle ==
    [][ \A id \in ParaletteIds :
          /\ ParaletteSelectAt(id, FALSE) =>
                pSelected' = (IF pSelected = {id} THEN {} ELSE {id})
          /\ ParaletteSelectAt(id, TRUE) =>
                /\ (id \in pSelected') # (id \in pSelected)
                /\ pSelected' \ {id} = pSelected \ {id}
                /\ Selected(pSelected', id, TRUE) = pSelected ]_vars

\* Two parts are selected: a Ctrl/Meta click added one to a selection.
C27_Witness == activeId = "paralette" /\ Cardinality(pSelected) = 2

(***************************************************************************)
(* Claim about the frame of updatePartOverrides                            *)
(***************************************************************************)

ScaleFields == {"scaleX", "scaleY", "scaleZ"}

\* The fields in which the overrides a and b differ.
ChangedFields(a, b) == { f \in OverrideFields : a[f] # b[f] }

\* C28: updatePartOverrides(ids, partial) changes only fields that partial
\* carries; a part outside ids keeps its scale fields and changes only when
\* partial carries a bevel field and the part has the type of a part in ids;
\* the number, the ids and the order of the parts stay as they were.
C28_UpdateChangesOnlyPartialFields ==
    [][ \A ids \in IdSets : \A partial \in Partials :
          WavyUpdateAt(ids, partial) =>
             /\ Len(parts') = Len(parts)
             /\ \A i \in 1..Len(parts) :
                  /\ parts'[i].id = parts[i].id
                  /\ parts'[i].type = parts[i].type
                  /\ parts'[i].index = parts[i].index
                  /\ ChangedFields(parts[i].overrides, parts'[i].overrides)
                        \subseteq DOMAIN partial
                  /\ parts[i].id \in ids =>
                        \A f \in DOMAIN partial : parts'[i].overrides[f] = partial[f]
                  /\ parts[i].id \notin ids =>
                        /\ ChangedFields(parts[i].overrides, parts'[i].overrides)
                              \cap ScaleFields = {}
                        /\ parts'[i] # parts[i] =>
                              /\ (DOMAIN partial) \cap BevelFields # {}
                              /\ \E j \in 1..Len(parts) :
                                    parts[j].id \in ids /\ parts[j].type = parts[i].type ]_vars

\* A fin carries a scale of its own and the bevel radius another fin of its
\* type was given: both kinds of update have run.
C28_Witness ==
    \E i \in 1..Len(parts) : \E j \in 1..Len(parts) :
       /\ i # j /\ parts[i].type = parts[j].type
       /\ parts[i].overrides.scaleX = 2000 /\ parts[j].overrides.scaleX = 1000
       /\ parts[i].overrides.bevelRadius = 500 /\ parts[j].overrides.bevelRadius = 500

(***************************************************************************)
(* App: the handle ref, the selection panel's snapshot and the exports     *)
(*                                                                         *)
(* The active project's component is rendered through React.lazy inside    *)
(* <Suspense fallback={null}>: it is mounted once its module has loaded.    *)
(* handle holds handleRef.current together with the state its closures     *)
(* captured in the render that exposed it.  Each action is one event       *)
(* handler followed by the commit it causes, with the effects in the order *)
(* of their declaration.                                                   *)
(***************************************************************************)

\* The state of the mounted component of project id.
CompParts(id) ==
    IF id = "wavy-structure" THEN parts ELSE IF id = "paralette" THEN pParts ELSE iParts
CompSelected(id) ==
    IF id = "wavy-structure" THEN selectedIds
    ELSE IF id = "paralette" THEN pSelected ELSE iSelected

\* The part list a component holds after its mount.
CompInitialParts(id) ==
    IF id = "wavy-structure" THEN NewParts(MathRound(wParams.finCount))
    ELSE IF id = "paralette" THEN INITIAL_PARTS ELSE InfillInitialParts

\* The component's updatePartOverrides.
CompUpdated(id, prev, ids, partial) ==
    IF id = "wavy-structure" THEN WavyUpdated(prev, ids, partial)
    ELSE HookUpdated(prev, ids, partial)

\* getAllPartOverrides of a render whose part list is ps.
AllPartOverrides(ps) ==
    [id \in PartIds(ps) |-> (CHOOSE p \in { ps[i] : i \in 1..Len(ps) } : p.id = id).overrides]

\* The component of project id holds (ps, sel); no other component is mounted.
SetComponents(id, ps, sel) ==
    /\ parts' = IF id = "wavy-structure" THEN ps ELSE <<>>
    /\ selectedIds' = IF id = "wavy-structure" THEN sel ELSE {}
    /\ pParts' = IF id = "paralette" THEN ps ELSE <<>>
    /\ pSelected' = IF id = "paralette" THEN sel ELSE {}
    /\ iParts' = IF id = "triangle-infill" THEN ps ELSE <<>>
    /\ iSelected' = IF id = "triangle-infill" THEN sel ELSE {}

\* usePartInteraction declares the selection effect inside the hook, before
\* the component's effect that exposes the handle; WavyStructure and
\* TriangleInfill declare the handle effect first.
SelectionEffectFirst(id) == id = "paralette"

\* The handle the component of project id exposes in a render with (ps, sel).
ExposedHandle(id, ps, sel) == [owner |-> id, parts |-> ps, selectedIds |-> sel]

\* handleRef.current is set and its component is the mounted one.
HandleLive == handle # NoHandle /\ handle.owner = activeId /\ activeId \in loaded

\* The effects of a commit of component id with a new selection sel:
\* the handle is exposed and onSelectionChange(sel) is called, which reads
\* getAllPartOverrides() of whatever handleRef.current holds at that point.
\* po is App's partOverrides as the handler left it.
CommitSelection(id, ps, sel, po) ==
    LET exposed == ExposedHandle(id, ps, sel)
        read == IF SelectionEffectFirst(id) THEN handle ELSE exposed
    IN /\ handle' = exposed
       /\ appSelectedIds' = sel
       /\ partOverrides' = IF read = NoHandle THEN po ELSE AllPartOverrides(read.parts)

\* Everything the App-level actions leave alone.
appRestVars ==
    <<wParams, deleted, pParams, pFrameGeo, pGripTubeGeo, pFootGeo, pFrameFail, pCrashed,
      iBuild, iParams, iDeleted, iFrameGeo, iInfill, iFail, iCrashed, honeycombVars,
      hoveredId, pointVars, unit, paramsMap>>
compVars == <<parts, selectedIds, pParts, pSelected, iParts, iSelected>>

\* The parts the pointer clicks and the partials the selection panel sends.
AppClickIds == {BaseId, XFinId(0), <<"frame", 0>>, <<"grip", 0>>, <<"infill", 0>>}
AppPartials == { [scaleX |-> 2000], [bevelRadius |-> 500] }

\* The lazy module of the active project has loaded: its component mounts.
AppLazyLoaded ==
    /\ activeId \notin loaded
    /\ loaded' = loaded \cup {activeId}
    /\ SetComponents(activeId, CompInitialParts(activeId), {})
    /\ CommitSelection(activeId, CompInitialParts(activeId), {}, partOverrides)
    /\ UNCHANGED <<activeId, ops, exporting, glbPending, exported, appRestVars>>

\* The project button's onClick.
AppSwitchProject ==
    \E id \in ProjectIds :
        /\ activeId' = id
        /\ IF id = activeId
             THEN /\ appSelectedIds' = {} /\ partOverrides' = EmptyOverrides
                  /\ UNCHANGED <<compVars, handle>>
           ELSE IF id \in loaded
             THEN /\ SetComponents(id, CompInitialParts(id), {})
                  /\ CommitSelection(id, CompInitialParts(id), {}, EmptyOverrides)
           ELSE /\ SetComponents("none", <<>>, {})
                /\ appSelectedIds' = {} /\ partOverrides' = EmptyOverrides
                /\ UNCHANGED handle
        /\ UNCHANGED <<loaded, ops, exporting, glbPending, exported, appRestVars>>

\* A click on a part of the mounted component: onSelect.
AppPartClick ==
    /\ ops < MaxOps /\ activeId \in loaded
    /\ \E id \in AppClickIds \cap PartIds(CompParts(activeId)) : \E isMulti \in BOOLEAN :
          LET sel == PartClicked(CompSelected(activeId), id, isMulti)
          IN /\ SetComponents(activeId, CompParts(activeId), sel)
             /\ CommitSelection(activeId, CompParts(activeId), sel, partOverrides)
    /\ ops' = ops + 1
    /\ UNCHANGED <<activeId, loaded, exporting, glbPending, exported, appRestVars>>

\* App's snapshot in onPartOverridesChange: getAllPartOverrides() of the handle,
\* whose closure holds the parts of the render that exposed it.
Snapshot(h) == AllPartOverrides(h.parts)

\* A slider of the selection panel: onPartOverridesChange(selectedIds, partial).
AppOverridesChangeAt(partial) ==
    /\ ops < MaxOps /\ activeId \in loaded /\ appSelectedIds # {}
    /\ IF HandleLive
         THEN LET updated ==
                    CompUpdated(activeId, CompParts(activeId), appSelectedIds, partial)
              IN /\ SetComponents(activeId, updated, CompSelected(activeId))
                 /\ handle' = ExposedHandle(activeId, updated, CompSelected(activeId))
         ELSE UNCHANGED <<compVars, handle>>
    /\ partOverrides' = IF handle = NoHandle THEN partOverrides
                        ELSE Snapshot(handle)
    /\ ops' = ops + 1
    /\ UNCHANGED <<activeId, loaded, appSelectedIds, exporting, glbPending, exported,
                   appRestVars>>

AppOnPartOverridesChange == \E partial \in AppPartials : AppOverridesChangeAt(partial)

\* The selection panel's Delete button: handleRef.current?.deleteSelected().
AppOnDelete ==
    /\ ops < MaxOps /\ activeId \in loaded /\ appSelectedIds # {}
    /\ IF HandleLive /\ handle.selectedIds # {}
         THEN LET kept == Filter(CompParts(activeId), handle.selectedIds)
              IN /\ SetComponents(activeId, kept, {})
                 /\ CommitSelection(activeId, kept, {}, partOverrides)
         ELSE UNCHANGED <<compVars, handle, appSelectedIds, partOverrides>>
    /\ ops' = ops + 1
    /\ UNCHANGED <<activeId, loaded, exporting, glbPending, exported, appRestVars>>

\* handleRef.current?.getGroup(): the group of the handle's component, and
\* null ("none") when there is no handle or its component is unmounted.
HandleGroup == IF HandleLive THEN handle.owner ELSE "none"

\* The STL button: onExportSTL.
AppExportSTL ==
    /\ ops < MaxOps
    /\ exported' = IF HandleGroup = "none" THEN exported
                   ELSE [format |-> "stl", project |-> activeId, group |-> HandleGroup]
    /\ ops' = ops + 1
    /\ UNCHANGED <<activeId, compVars, appVars, appRestVars>>

\* A GLB button that is never disabled.
GlbButtonNeverDisabled == FALSE

\* <Button disabled={exporting}>
GlbButtonDisabled == exporting

\* The GLB button's onClick up to its await: setExporting(true), onExportGLB().
AppExportGLBClick ==
    /\ ops < MaxOps /\ ~GlbButtonDisabled
    /\ exporting' = TRUE
    /\ glbPending' = Append(glbPending, [project |-> activeId, group |-> HandleGroup])
    /\ ops' = ops + 1
    /\ UNCHANGED <<activeId, compVars, handle, partOverrides, loaded, appSelectedIds,
                   exported, appRestVars>>

\* The promise of onExportGLB settles; finally { setExporting(false) }.
AppGLBSettle ==
    /\ glbPending # <<>>
    /\ \E resolved \in BOOLEAN :
          /\ ~resolved => Head(glbPending).group # "none"
          /\ exported' = IF resolved /\ Head(glbPending).group # "none"
                           THEN [format |-> "glb", project |-> Head(glbPending).project,
                                 group |-> Head(glbPending).group]
                           ELSE exported
    /\ exporting' = FALSE
    /\ glbPending' = Tail(glbPending)
    /\ UNCHANGED <<activeId, ops, compVars, handle, partOverrides, loaded, appSelectedIds,
                   appRestVars>>

AppInit ==
    /\ WavyUnmounted /\ ParaletteUnmounted /\ InfillUnmounted /\ HoneycombIdle /\ PointIdle
    /\ unit = "mm" /\ paramsMap = <<>> /\ exported = NoExport
    /\ AppIdle
    /\ ops = 0 /\ activeId = "wavy-structure" /\ hoveredId = NoHover

AppNext ==
    \/ AppLazyLoaded
    \/ AppSwitchProject
    \/ AppPartClick
    \/ AppOnPartOverridesChange
    \/ AppOnDelete
    \/ AppExportSTL
    \/ AppExportGLBClick
    \/ AppGLBSettle

SpecApp == AppInit /\ [][AppNext]_vars

(***************************************************************************)
(* Claims about App's snapshot, the GLB export and the handle              *)
(***************************************************************************)

\* The overrides of the mounted component's parts.
MountedOverrides == AllPartOverrides(CompParts(activeId))

\* C25: after App.onPartOverridesChange(ids, partial) has run, the override
\* snapshot App holds for the selection panel equals the part overrides of
\* the component, the update just applied included.
C25_SnapshotIncludesUpdate ==
    [][AppOnPartOverridesChange /\ HandleLive => partOverrides' = MountedOverrides']_vars

\* The snapshot lags one update behind: it is what the component held before.
SnapshotIsBeforeUpdate ==
    [][AppOnPartOverridesChange /\ HandleLive => partOverrides' = MountedOverrides]_vars

\* C29: at most one GLB export is in flight, the button is disabled exactly
\* while one is, and every settling of onExportGLB, resolved or rejected,
\* leaves exporting false.
C29_OneGlbExportInFlight ==
    /\ [](Len(glbPending) <= 1 /\ (GlbButtonDisabled <=> glbPending # <<>>))
    /\ [][AppGLBSettle => ~exporting' /\ glbPending' = <<>>]_vars

\* A GLB export of the mounted component was started and has settled.
C29_Witness == exported # NoExport /\ exported.format = "glb" /\ ~exporting /\ ops = 2

\* C30: whenever App issues a delete, export or override command through
\* handleRef, the handle it reaches belongs to the mounted component of the
\* active project.
C30_CommandsUseActiveHandle ==
    [][(AppOnDelete \/ AppExportSTL \/ AppExportGLBClick \/ AppOnPartOverridesChange)
         => (handle # NoHandle => HandleLive)]_vars

\* While the component is mounted the snapshot only names parts of it.
SnapshotNamesMountedParts ==
    activeId \in loaded => DOMAIN partOverrides \subseteq PartIds(CompParts(activeId))

=============================================================================
